---- MODULE Spec2Model ----
(***************************************************************************)
(* Model of the Google API helper functions of this repository             *)
(* (google_sheets_api.py and its neighbours).  The functions are           *)
(* stateless wrappers around a remote client: the state is the frame of    *)
(* the call in progress (its arguments, locals and position), the outcome  *)
(* the caller receives, the remote requests issued so far and the remote   *)
(* spreadsheet the requests act on.                                        *)
(*                                                                         *)
(* Python values are tagged records [t, v]; a Python str is the sequence   *)
(* of its characters (one-character strings), so that formatting, joining  *)
(* and pattern matching are computed character by character.              *)
(***************************************************************************)
EXTENDS Integers, Sequences, FiniteSets, TLC

VARIABLES
    pc,      \* position of the call in progress
    args,    \* arguments of the call
    locals,  \* local variables of the call
    ret,     \* what the caller receives: pending, a returned value or a raised exception
    calls,   \* remote requests executed so far, oldest first, each with its outcome
    remote   \* the remote spreadsheet

vars == <<pc, args, locals, ret, calls, remote>>

(***************************************************************************)
(* Python values                                                           *)
(***************************************************************************)
None == [t |-> "None", v |-> <<>>]
PyStr(s) == [t |-> "str", v |-> s]
PyInt(i) == [t |-> "int", v |-> i]
PyBool(b) == [t |-> "bool", v |-> b]
PyList(xs) == [t |-> "list", v |-> xs]
PyDict(d) == [t |-> "dict", v |-> d]

Pending == [kind |-> "pending", value |-> None]
Return(x) == [kind |-> "return", value |-> x]
Raise(e) == [kind |-> "raise", value |-> [t |-> "exception", v |-> e]]

\* Python truthiness (`if x`, `if not x`) of the values the code tests
Truthy(x) ==
    CASE x.t = "None" -> FALSE
      [] x.t = "int" -> x.v # 0
      [] x.t = "bool" -> x.v
      [] x.t \in {"str", "list"} -> Len(x.v) > 0
      [] OTHER -> TRUE

(***************************************************************************)
(* Characters: the ASCII table for codes 32..95 and 97..122 (the code      *)
(* tests and produces no character outside it), and the newline           *)
(***************************************************************************)
Ascii ==
    << " ", "!", "\"", "#", "$", "%", "&", "'", "(", ")", "*", "+", ",", "-", ".", "/",
       "0", "1", "2", "3", "4", "5", "6", "7", "8", "9", ":", ";", "<", "=", ">", "?",
       "@", "A", "B", "C", "D", "E", "F", "G", "H", "I", "J", "K", "L", "M", "N", "O",
       "P", "Q", "R", "S", "T", "U", "V", "W", "X", "Y", "Z", "[", "\\", "]", "^", "_",
       "a", "b", "c", "d", "e", "f", "g", "h", "i", "j", "k", "l", "m", "n", "o",
       "p", "q", "r", "s", "t", "u", "v", "w", "x", "y", "z" >>

NL == "\n"

chr(c) == IF c = 10 THEN NL ELSE IF c < 96 THEN Ascii[c - 31] ELSE Ascii[c - 32]

\* the code of each character of the table
Codes == (32..95) \cup (97..122) \cup {10}
OrdTable == [ch \in {chr(c) : c \in Codes} |-> CHOOSE c \in Codes : chr(c) = ch]

ord(ch) == OrdTable[ch]

\* str(n) of a non-negative int: its decimal digits
RECURSIVE IntToStr(_)
IntToStr(n) ==
    IF n < 10 THEN <<chr(48 + n)>> ELSE IntToStr(n \div 10) \o <<chr(48 + (n % 10))>>

(***************************************************************************)
(* _col_num_to_letter                                                      *)
(***************************************************************************)
\* one evaluation of the while loop: n, rem = divmod(n - 1, 26); prepend chr(65 + rem)
RECURSIVE ColLoop(_, _)
ColLoop(n, result) ==
    IF n > 0
    THEN ColLoop((n - 1) \div 26, <<chr(65 + ((n - 1) % 26))>> \o result)
    ELSE result

\* a codec that divides without the decrement (standard base 26)
ColNumToLetter_NoDecrement(n) ==
    LET RECURSIVE Loop(_, _)
        Loop(m, result) ==
            IF m > 0 THEN Loop(m \div 26, <<chr(65 + (m % 26))>> \o result) ELSE result
    IN Loop(n, <<>>)

_col_num_to_letter(n) == ColLoop(n, <<>>)

(***************************************************************************)
(* The codec alone: a caller applies _col_num_to_letter to one index       *)
(***************************************************************************)
MaxCol == 710

NoRemote == [sheets |-> <<>>, values |-> <<>>, tables |-> <<>>, formats |-> <<>>]

InitCodec ==
    /\ pc = "_col_num_to_letter"
    /\ args \in {[n |-> n] : n \in 0..MaxCol}
    /\ locals = <<>>
    /\ ret = Pending
    /\ calls = <<>>
    /\ remote = NoRemote

call_col_num_to_letter ==
    /\ pc = "_col_num_to_letter"
    /\ pc' = "returned"
    /\ ret' = Return(PyStr(_col_num_to_letter(args.n)))
    /\ UNCHANGED <<args, locals, calls, remote>>

NextCodec == call_col_num_to_letter

SpecCodec == InitCodec /\ [][NextCodec]_vars

\* the number a label denotes in bijective base 26: digits A..Z are 1..26
RECURSIVE LabelValue(_)
LabelValue(label) ==
    IF label = <<>> THEN 0
    ELSE 26 * LabelValue(SubSeq(label, 1, Len(label) - 1)) + (ord(label[Len(label)]) - 64)

UpperLetters == {chr(c) : c \in 65..90}

CodecReturned == pc = "returned" /\ ret.kind = "return" /\ args.n >= 1

\* C1: for every index n >= 1 the codec returns the bijective base-26 label of n:
\* a non-empty word over A..Z whose digits (A = 1 .. Z = 26, no zero digit) denote n,
\* with 1 -> A, 26 -> Z, 27 -> AA, 52 -> AZ, 703 -> AAA, and no other index in
\* range gets the same label.
C1_ColumnLabel ==
    CodecReturned =>
        LET n == args.n
            label == ret.value.v
        IN /\ ret.value.t = "str"
           /\ Len(label) >= 1
           /\ \A i \in 1..Len(label) : label[i] \in UpperLetters
           /\ LabelValue(label) = n
           /\ (n = 1 => label = <<"A">>)
           /\ (n = 26 => label = <<"Z">>)
           /\ (n = 27 => label = <<"A", "A">>)
           /\ (n = 52 => label = <<"A", "Z">>)
           /\ (n = 703 => label = <<"A", "A", "A">>)
           /\ \A m \in 1..MaxCol : m # n => _col_num_to_letter(m) # label

\* the codec has returned the three-letter label of 703
C1_Witness == CodecReturned /\ args.n = 703 /\ ret.value.v = <<"A", "A", "A">>

(***************************************************************************)
(* The remote service.  A request executed with .execute(http=http) either *)
(* succeeds, fails with HttpError (the server answered with an error), or  *)
(* fails below HTTP (httplib2 / socket errors), which no handler of this   *)
(* module catches except add_rows_to_sheet's `except Exception`.           *)
(***************************************************************************)
RemoteOutcomes == {"ok", "HttpError", "TransportError"}

Request(method, params, outcome) == [method |-> method, params |-> params, outcome |-> outcome]

TitleA == <<"S", "h", "e", "e", "t", "1">>
TitleB == <<"D", "a", "t", "a">>

Sheets == <<[sheetId |-> 0, title |-> TitleA], [sheetId |-> 7, title |-> TitleB]>>

\* sheet ids a caller passes: the two that exist and one that does not
SheetIdInputs == {0, 7, 3}

(***************************************************************************)
(* _get_sheet_name_by_id                                                   *)
(***************************************************************************)
\* for sheet in spreadsheet.get('sheets', []): first sheet whose sheetId matches
RECURSIVE FindSheet_NoneWhenMissing(_, _)
FindSheet_NoneWhenMissing(sheets, sheet_id) ==
    IF sheets = <<>> THEN Return(None)
    ELSE IF Head(sheets).sheetId = sheet_id THEN Return(PyStr(Head(sheets).title))
    ELSE FindSheet_NoneWhenMissing(Tail(sheets), sheet_id)

RECURSIVE FindSheet(_, _)
FindSheet(sheets, sheet_id) ==
    IF sheets = <<>> THEN Raise("ValueError")
    ELSE IF Head(sheets).sheetId = sheet_id THEN Return(PyStr(Head(sheets).title))
    ELSE FindSheet(Tail(sheets), sheet_id)

_get_sheet_name_by_id(outcome, sheets, sheet_id) ==
    CASE outcome = "ok" -> FindSheet(sheets, sheet_id)
      [] outcome = "HttpError" -> Return(None)
      [] OTHER -> Raise(outcome)

\* The first step of add_rows_to_sheet (after projecting), get_rows_from_range and
\* get_all_rows_from_sheet: resolve the sheet name, return None when it is falsy.
ResolveSheetName(next_pc) ==
    \E outcome \in RemoteOutcomes :
        LET r == _get_sheet_name_by_id(outcome, remote.sheets, args.sheet_id)
        IN /\ calls' = Append(calls, Request("spreadsheets.get", [spreadsheetId |-> args.spreadsheet_id], outcome))
           /\ IF r.kind = "raise"
              THEN pc' = "raised" /\ ret' = r /\ UNCHANGED locals
              ELSE IF ~Truthy(r.value)
              THEN pc' = "returned" /\ ret' = Return(None) /\ UNCHANGED locals
              ELSE pc' = next_pc /\ locals' = [locals EXCEPT !.sheet_name = r.value.v] /\ UNCHANGED ret
           /\ UNCHANGED <<args, remote>>

(***************************************************************************)
(* get_rows_from_range                                                     *)
(***************************************************************************)
\* the column indices handed to _col_num_to_letter: none for a row-only range
ColumnBounds_Inclusive(start_col, end_col) ==
    IF Truthy(start_col) /\ Truthy(end_col) THEN <<start_col.v, end_col.v>>
    ELSE IF Truthy(start_col) THEN <<start_col.v, start_col.v>>
    ELSE <<>>

ColumnBounds(start_col, end_col) ==
    IF Truthy(start_col) /\ Truthy(end_col) THEN <<start_col.v, end_col.v - 1>>
    ELSE IF Truthy(start_col) THEN <<start_col.v, start_col.v>>
    ELSE <<>>

RangeNotation(sheet_name, start_row, end_row, start_col, end_col) ==
    LET b == ColumnBounds(start_col, end_col)
    IN IF b # <<>>
       THEN sheet_name \o <<"!">> \o _col_num_to_letter(b[1]) \o IntToStr(start_row)
                \o <<":">> \o _col_num_to_letter(b[2]) \o IntToStr(end_row)
       ELSE sheet_name \o <<"!">> \o IntToStr(start_row) \o <<":">> \o IntToStr(end_row)

get_rows_from_range_resolve ==
    /\ args.op = "get_rows_from_range"
    /\ pc = "resolve"
    /\ ResolveSheetName("fetch")

get_rows_from_range_fetch ==
    /\ args.op = "get_rows_from_range"
    /\ pc = "fetch"
    /\ \E outcome \in RemoteOutcomes :
        LET range_notation == RangeNotation(locals.sheet_name, args.start_row, args.end_row,
                                            args.start_col, args.end_col)
        IN /\ calls' = Append(calls, Request("spreadsheets.values.get",
                                  [spreadsheetId |-> args.spreadsheet_id, range |-> range_notation], outcome))
           /\ locals' = [locals EXCEPT !.codec_args = ColumnBounds(args.start_col, args.end_col)]
           /\ CASE outcome = "ok" -> pc' = "returned" /\ ret' = Return(PyList(remote.values))
                [] outcome = "HttpError" -> pc' = "returned" /\ ret' = Return(None)
                [] OTHER -> pc' = "raised" /\ ret' = Raise(outcome)
    /\ UNCHANGED <<args, remote>>

(***************************************************************************)
(* get_all_rows_from_sheet                                                 *)
(***************************************************************************)
\* [""] * k: the empty list when k <= 0
Repeat(x, k) == [i \in 1..k |-> x]

\* padding that also cuts a longer row down to the header's width
PadRow_Truncate(row, num_columns) ==
    SubSeq(row \o Repeat(<<>>, num_columns - Len(row)), 1, num_columns)

PadRow(row, num_columns) == row \o Repeat(<<>>, num_columns - Len(row))

PaddedRows(rows) ==
    IF rows = <<>> THEN <<>>
    ELSE LET num_columns == Len(rows[1])
         IN [i \in 1..Len(rows) |-> PadRow(rows[i], num_columns)]

get_all_rows_from_sheet_resolve ==
    /\ args.op = "get_all_rows_from_sheet"
    /\ pc = "resolve"
    /\ ResolveSheetName("fetch")

get_all_rows_from_sheet_fetch ==
    /\ args.op = "get_all_rows_from_sheet"
    /\ pc = "fetch"
    /\ \E outcome \in RemoteOutcomes :
        /\ calls' = Append(calls, Request("spreadsheets.values.get",
                               [spreadsheetId |-> args.spreadsheet_id, range |-> locals.sheet_name], outcome))
        /\ CASE outcome = "ok" -> pc' = "returned" /\ ret' = Return(PyList(PaddedRows(remote.values)))
             [] outcome = "HttpError" -> pc' = "returned" /\ ret' = Return(None)
             [] OTHER -> pc' = "raised" /\ ret' = Raise(outcome)
    /\ UNCHANGED <<args, locals, remote>>

(***************************************************************************)
(* add_rows_to_sheet                                                       *)
(***************************************************************************)
\* sep.join(xs) for a list of str
RECURSIVE Join(_, _)
Join(sep, xs) ==
    IF xs = <<>> THEN <<>>
    ELSE IF Len(xs) = 1 THEN xs[1].v
    ELSE xs[1].v \o sep \o Join(sep, Tail(xs))

\* str.join raises TypeError unless every element is a str
JoinRaises(xs) == \E i \in 1..Len(xs) : xs[i].t # "str"

\* one evaluation of the inner loop body: the cell for column col of record item,
\* or the TypeError of " ".join on a list holding a non-str
ProjectCell(item, col) ==
    LET col_value == IF col \in DOMAIN item THEN item[col] ELSE PyStr(<<>>)
    IN IF col_value.t = "None" THEN [raises |-> FALSE, cell |-> PyStr(<<>>)]
       ELSE IF col_value.t = "list"
       THEN IF Len(col_value.v) > 0
            THEN [raises |-> JoinRaises(col_value.v),
                  cell |-> IF JoinRaises(col_value.v) THEN None ELSE PyStr(Join(<<" ">>, col_value.v))]
            ELSE [raises |-> FALSE, cell |-> PyStr(<<>>)]
       ELSE [raises |-> FALSE, cell |-> col_value]

\* a projector that emits a cell only for the columns the record has
ProjectRow_SkipMissing(item, column_order) ==
    LET RECURSIVE Walk(_)
        Walk(cols) ==
            IF cols = <<>> THEN <<>>
            ELSE IF Head(cols) \in DOMAIN item
            THEN <<ProjectCell(item, Head(cols))>> \o Walk(Tail(cols))
            ELSE Walk(Tail(cols))
    IN Walk(column_order)

\* for col in column_order: row.append(...)
ProjectRow(item, column_order) ==
    [i \in 1..Len(column_order) |-> ProjectCell(item, column_order[i])]

\* if isinstance(rows, dict): rows = [rows]
AsRecordList(rows) == IF rows.t = "dict" THEN <<rows.v>> ELSE rows.v

ProjectRows(rows, column_order) ==
    LET items == AsRecordList(rows)
    IN [r \in 1..Len(items) |-> ProjectRow(items[r], column_order)]

ProjectionRaises(projected) ==
    \E r \in 1..Len(projected) : \E c \in 1..Len(projected[r]) : projected[r][c].raises

CellsOf(projected) ==
    [r \in 1..Len(projected) |-> [c \in 1..Len(projected[r]) |-> projected[r][c].cell]]

add_rows_to_sheet_project ==
    /\ args.op = "add_rows_to_sheet"
    /\ pc = "project"
    /\ LET projected == ProjectRows(args.rows, args.column_order)
       IN IF ProjectionRaises(projected)
          THEN pc' = "raised" /\ ret' = Raise("TypeError") /\ UNCHANGED locals
          ELSE pc' = "resolve" /\ locals' = [locals EXCEPT !.values = CellsOf(projected)] /\ UNCHANGED ret
    /\ UNCHANGED <<args, calls, remote>>

add_rows_to_sheet_resolve ==
    /\ args.op = "add_rows_to_sheet"
    /\ pc = "resolve"
    /\ ResolveSheetName("append")

add_rows_to_sheet_append ==
    /\ args.op = "add_rows_to_sheet"
    /\ pc = "append"
    /\ \E outcome \in RemoteOutcomes :
        /\ calls' = Append(calls, Request("spreadsheets.values.append",
                               [spreadsheetId |-> args.spreadsheet_id,
                                range |-> locals.sheet_name \o <<"!", "A", "1">>,
                                valueInputOption |-> "USER_ENTERED",
                                insertDataOption |-> "INSERT_ROWS",
                                body |-> [values |-> locals.values]], outcome))
        /\ CASE outcome = "ok" ->
                    pc' = "returned" /\ ret' = Return(PyDict([updatedRows |-> Len(locals.values)]))
             [] outcome = "HttpError" ->
                    \* the handler reads error.response_status, an attribute HttpError
                    \* does not have: the AttributeError leaves the handler
                    pc' = "raised" /\ ret' = Raise("AttributeError")
             [] OTHER ->
                    \* except Exception
                    pc' = "returned" /\ ret' = Return(None)
    /\ UNCHANGED <<args, locals, remote>>

(***************************************************************************)
(* The row operations: one call of add_rows_to_sheet, get_rows_from_range  *)
(* or get_all_rows_from_sheet against a spreadsheet with two sheets        *)
(***************************************************************************)
MaxRow == 10
MaxColArg == 28
MaxRecords == 2
MaxColumns == 2
MaxRows == 3
MaxWidth == 5

SeqsUpTo(S, n) == UNION {[1..k -> S] : k \in 0..n}

NoLocals == [sheet_name |-> <<>>, values |-> <<>>, codec_args |-> <<>>]

\* record fields and the values they hold
FieldNames == {"x", "y"}
ColumnNames == {"x", "y", "w"}
StrA == PyStr(<<"a">>)
StrB == PyStr(<<"b", "c">>)
FieldValues ==
    {None, StrA, PyInt(0), PyBool(FALSE), PyList(<<>>), PyList(<<StrA, StrB>>), PyList(<<StrA, PyInt(0)>>)}

Records == UNION {[D -> FieldValues] : D \in SUBSET FieldNames}

\* the records that batches of several are drawn from
SampleRecords ==
    { [k \in {"x"} |-> StrA],
      [k \in {"x", "y"} |-> IF k = "x" THEN PyList(<<StrA, StrB>>) ELSE PyInt(0)],
      [k \in {"y"} |-> None] }

RowsInputs ==
    {PyDict(d) : d \in Records}
        \cup {PyList(<<d>>) : d \in Records}
        \cup {PyList(ds) : ds \in SeqsUpTo(SampleRecords, MaxRecords)}

\* a cell of the sheet at row r, column c: some blank, the others distinct
GridCell(r, c) == IF (r + c) % 3 = 0 THEN <<>> ELSE <<chr(48 + r), chr(64 + c)>>

\* the sheet's values as the service returns them: rows of unequal length
Grids == {[r \in 1..Len(ws) |-> [c \in 1..ws[r] |-> GridCell(r, c)]] : ws \in SeqsUpTo(0..MaxWidth, MaxRows)}

FixedGrid == <<<<GridCell(1, 1), GridCell(1, 2)>>, <<GridCell(2, 1)>>>>

OptionalCols == {None} \cup {PyInt(c) : c \in 0..MaxColArg}

InitSheets ==
    /\ pc \in {"project", "resolve"}
    /\ \/ /\ pc = "project"
          /\ args \in [op : {"add_rows_to_sheet"}, spreadsheet_id : {"sid"}, sheet_id : SheetIdInputs,
                       rows : RowsInputs, column_order : SeqsUpTo(ColumnNames, MaxColumns)]
          /\ remote = [sheets |-> Sheets, values |-> FixedGrid, tables |-> <<>>, formats |-> <<>>]
       \/ /\ pc = "resolve"
          /\ args \in [op : {"get_rows_from_range"}, spreadsheet_id : {"sid"}, sheet_id : SheetIdInputs,
                       start_row : {1, MaxRow - 1, MaxRow}, end_row : {1, MaxRow - 1, MaxRow},
                       start_col : OptionalCols, end_col : OptionalCols]
          /\ remote = [sheets |-> Sheets, values |-> FixedGrid, tables |-> <<>>, formats |-> <<>>]
       \/ /\ pc = "resolve"
          /\ args \in [op : {"get_all_rows_from_sheet"}, spreadsheet_id : {"sid"}, sheet_id : SheetIdInputs]
          /\ remote \in [sheets : {Sheets}, values : Grids, tables : {<<>>}, formats : {<<>>}]
    /\ locals = NoLocals
    /\ ret = Pending
    /\ calls = <<>>

NextSheets ==
    \/ add_rows_to_sheet_project
    \/ add_rows_to_sheet_resolve
    \/ add_rows_to_sheet_append
    \/ get_rows_from_range_resolve
    \/ get_rows_from_range_fetch
    \/ get_all_rows_from_sheet_resolve
    \/ get_all_rows_from_sheet_fetch

SpecSheets == InitSheets /\ [][NextSheets]_vars

(***************************************************************************)
(* Properties of the row operations                                        *)
(***************************************************************************)
Max(a, b) == IF a >= b THEN a ELSE b

\* the records of the call in progress, a bare mapping counting as one
RecordCount == IF args.rows.t = "dict" THEN 1 ELSE Len(args.rows.v)
RecordAt(r) == IF args.rows.t = "dict" THEN args.rows.v ELSE args.rows.v[r]

\* the text of a list element, and the elements joined by single spaces
ElemText(x) == IF x.t = "str" THEN x.v ELSE IF x.t = "int" THEN IntToStr(x.v) ELSE <<>>
RECURSIVE SpaceJoined(_)
SpaceJoined(xs) ==
    IF xs = <<>> THEN <<>>
    ELSE IF Len(xs) = 1 THEN ElemText(xs[1])
    ELSE ElemText(xs[1]) \o <<" ">> \o SpaceJoined(Tail(xs))

ClaimedCell(item, col) ==
    IF col \notin DOMAIN item THEN PyStr(<<>>)
    ELSE IF item[col].t = "None" THEN PyStr(<<>>)
    ELSE IF item[col].t = "list" THEN PyStr(SpaceJoined(item[col].v))
    ELSE item[col]

Projected == args.op = "add_rows_to_sheet" /\ pc # "project"

\* C2: for every record and every column of column_order the projector yields a
\* cell: "" for an absent field or a null, the elements joined by single spaces for
\* a list, the value itself otherwise.
C2_ProjectedCells ==
    Projected =>
        /\ ~(pc = "raised" /\ ret.value.v = "TypeError")
        /\ Len(locals.values) = RecordCount
        /\ \A r \in 1..RecordCount : \A c \in 1..Len(args.column_order) :
              locals.values[r][c] = ClaimedCell(RecordAt(r), args.column_order[c])

\* What does hold of the projector: the cells are as claimed whenever no list holds
\* a non-str element, and otherwise the call raises TypeError before any request.
AllListsOfStr ==
    \A r \in 1..RecordCount : \A c \in 1..Len(args.column_order) :
        LET item == RecordAt(r)
            col == args.column_order[c]
        IN (col \in DOMAIN item /\ item[col].t = "list") =>
               \A i \in 1..Len(item[col].v) : item[col].v[i].t = "str"

ProjectedCellsOfStrLists ==
    Projected =>
        IF AllListsOfStr
        THEN /\ Len(locals.values) = RecordCount
             /\ \A r \in 1..RecordCount : \A c \in 1..Len(args.column_order) :
                   locals.values[r][c] = ClaimedCell(RecordAt(r), args.column_order[c])
        ELSE pc = "raised" /\ ret = Raise("TypeError") /\ calls = <<>>

\* C3: every row sent to values.append has len(column_order) cells aligned with
\* column_order (an absent field gives "", a scalar gives itself at its column's
\* position), and as many rows are sent as there are records, one for a bare mapping.
C3_RowShape ==
    \A i \in 1..Len(calls) :
        calls[i].method = "spreadsheets.values.append" =>
            LET sent == calls[i].params.body.values
            IN /\ Len(sent) = RecordCount
               /\ \A r \in 1..Len(sent) :
                    /\ Len(sent[r]) = Len(args.column_order)
                    /\ \A c \in 1..Len(sent[r]) :
                         LET item == RecordAt(r)
                             col == args.column_order[c]
                         IN /\ col \notin DOMAIN item => sent[r][c] = PyStr(<<>>)
                            /\ (col \in DOMAIN item /\ item[col].t \in {"str", "int", "bool"})
                                   => sent[r][c] = item[col]

\* two records were sent, one of them with an extra field (y) and a missing one (w)
C3_Witness ==
    /\ args.op = "add_rows_to_sheet"
    /\ Len(calls) = 2
    /\ calls[2].method = "spreadsheets.values.append"
    /\ Len(calls[2].params.body.values) = 2
    /\ args.column_order = <<"w", "x">>
    /\ \E r \in 1..RecordCount : DOMAIN RecordAt(r) = {"x", "y"}

FullReadReturned ==
    /\ args.op = "get_all_rows_from_sheet"
    /\ pc = "returned"
    /\ Len(calls) = 2
    /\ calls[2].outcome = "ok"

\* C4: the full-sheet read returns every returned row r, in order, followed by
\* max(0, headerWidth - len(r)) empty strings: shorter rows reach the header's
\* width, longer rows keep their length, cells are unchanged, and no rows give [].
C4_PadToHeader ==
    FullReadReturned =>
        LET rows == remote.values
            out == ret.value.v
        IN /\ ret.value.t = "list"
           /\ Len(out) = Len(rows)
           /\ rows = <<>> => out = <<>>
           /\ \A r \in 1..Len(rows) :
                LET width == Len(rows[1])
                    n == Len(rows[r])
                IN /\ Len(out[r]) = n + Max(0, width - n)
                   /\ \A c \in 1..n : out[r][c] = rows[r][c]
                   /\ \A c \in (n + 1)..Len(out[r]) : out[r][c] = <<>>

\* header of width 3, a row of length 5 kept at 5 and a row of length 1 padded to 3
C4_Witness ==
    /\ FullReadReturned
    /\ Len(remote.values) = 3
    /\ Len(remote.values[1]) = 3 /\ Len(remote.values[2]) = 5 /\ Len(remote.values[3]) = 1
    /\ Len(ret.value.v[1]) = 3 /\ Len(ret.value.v[2]) = 5 /\ Len(ret.value.v[3]) = 3

RangeRequested ==
    /\ args.op = "get_rows_from_range"
    /\ Len(calls) = 2
    /\ calls[2].method = "spreadsheets.values.get"

\* the title of the sheet the call addresses
ResolvedName == (CHOOSE i \in 1..Len(remote.sheets) : remote.sheets[i].sheetId = args.sheet_id)

BothColsGiven ==
    args.start_col.t = "int" /\ args.end_col.t = "int" /\ 1 <= args.start_col.v /\ args.start_col.v < args.end_col.v
OnlyStartColGiven == args.start_col.t = "int" /\ args.start_col.v >= 1 /\ args.end_col.t = "None"
NoStartCol == args.start_col.t = "None"

\* C5: with S the resolved sheet name and L the codec, the requested range is
\* S!L(start_col)start_row:L(end_col-1)end_row when 1 <= start_col < end_col are both
\* given, S!L(start_col)start_row:L(start_col)end_row when only start_col is given,
\* S!start_row:end_row without start_col; in these cases the codec is applied only
\* to indices >= 1.
C5_RangeNotation ==
    RangeRequested =>
        LET S == remote.sheets[ResolvedName].title
            range == calls[2].params.range
            sr == IntToStr(args.start_row)
            er == IntToStr(args.end_row)
        IN /\ BothColsGiven =>
                range = S \o <<"!">> \o _col_num_to_letter(args.start_col.v) \o sr
                          \o <<":">> \o _col_num_to_letter(args.end_col.v - 1) \o er
           /\ OnlyStartColGiven =>
                range = S \o <<"!">> \o _col_num_to_letter(args.start_col.v) \o sr
                          \o <<":">> \o _col_num_to_letter(args.start_col.v) \o er
           /\ NoStartCol => range = S \o <<"!">> \o sr \o <<":">> \o er
           /\ (BothColsGiven \/ OnlyStartColGiven \/ NoStartCol) =>
                \A k \in 1..Len(locals.codec_args) : locals.codec_args[k] >= 1

\* columns 1 (inclusive) to 28 (exclusive), rows 1 to 10 of the first sheet: Sheet1!A1:AA10
C5_Witness ==
    /\ RangeRequested
    /\ BothColsGiven
    /\ args.start_col.v = 1 /\ args.end_col.v = 28
    /\ calls[2].params.range = TitleA \o <<"!", "A", "1", ":", "A", "A", "1", "0">>

(***************************************************************************)
(* create_table_from_schema                                                *)
(***************************************************************************)
IsUpper(ch) == ord(ch) \in 65..90
IsLower(ch) == ord(ch) \in 97..122
IsDigit(ch) == ord(ch) \in 48..57

\* the character class [A-Za-z0-9_ ]
InNameClass(ch) == IsUpper(ch) \/ IsLower(ch) \/ IsDigit(ch) \/ ch = "_" \/ ch = " "

\* re.match(r'^[A-Za-z0-9_ ]+$', name): one or more class characters from the
\* start, then `$`, which matches at the end of the string and also just before a
\* newline that is the last character
MatchesNamePattern(name) ==
    \E k \in 1..Len(name) :
        /\ \A i \in 1..k : InNameClass(name[i])
        /\ \/ k = Len(name)
           \/ k = Len(name) - 1 /\ name[Len(name)] = NL

upper(ch) == IF IsLower(ch) THEN chr(ord(ch) - 32) ELSE ch
lower(ch) == IF IsUpper(ch) THEN chr(ord(ch) + 32) ELSE ch

\* str.capitalize(): first character upper-cased, the rest lower-cased
capitalize(str) == [i \in 1..Len(str) |-> IF i = 1 THEN upper(str[i]) ELSE lower(str[i])]

\* table_name.lower().replace(' ', '_')
TableId(table_name) ==
    [i \in 1..Len(table_name) |-> IF table_name[i] = " " THEN "_" ELSE lower(table_name[i])]

\* a type map that gives numeric and boolean properties their own column types
type_map_Typed ==
    [string |-> "TEXT", number |-> "DOUBLE", integer |-> "DOUBLE", boolean |-> "BOOLEAN"]

type_map == [string |-> "TEXT", number |-> "TEXT", integer |-> "TEXT", boolean |-> "TEXT"]

\* type_map.get(details.get("type"), "TEXT")
ColType(details) ==
    IF "type" \in DOMAIN details /\ details["type"] \in DOMAIN type_map
    THEN type_map[details["type"]]
    ELSE "TEXT"

\* one evaluation of the loop body: the column definition of a property
ColumnDef(col_idx, prop, details) ==
    IF "enum" \in DOMAIN details
    THEN [columnIndex |-> col_idx,
          columnName |-> capitalize(prop),
          columnType |-> "DROPDOWN",
          dataValidationRule |->
              [condition |-> [type |-> "ONE_OF_LIST",
                              values |-> [i \in 1..Len(details["enum"]) |->
                                             [userEnteredValue |-> details["enum"][i]]]]]]
    ELSE [columnIndex |-> col_idx,
          columnName |-> capitalize(prop),
          columnType |-> ColType(details)]

\* properties.items() in order, col_idx counting from 0
ColumnProperties(properties) ==
    [i \in 1..Len(properties) |-> ColumnDef(i - 1, properties[i].name, properties[i].details)]

TableRequest(table_name, sheet_id, start_row, start_col, properties) ==
    LET column_properties == ColumnProperties(properties)
        end_col == start_col + Len(column_properties)
        end_row == start_row + 2
    IN [addTable |->
          [table |->
             [name |-> table_name,
              tableId |-> TableId(table_name),
              range |-> [sheetId |-> sheet_id,
                         startColumnIndex |-> start_col,
                         endColumnIndex |-> end_col,
                         startRowIndex |-> start_row,
                         endRowIndex |-> end_row],
              columnProperties |-> column_properties]]]

PixelSize == 200

ColumnWidthRequest(sheet_id, start_col, end_col) ==
    [updateDimensionProperties |->
        [range |-> [sheetId |-> sheet_id, dimension |-> "COLUMNS",
                    startIndex |-> start_col, endIndex |-> end_col],
         properties |-> [pixelSize |-> PixelSize],
         fields |-> "pixelSize"]]

WrapRequest(sheet_id, start_row, end_row, start_col, end_col) ==
    [repeatCell |->
        [range |-> [sheetId |-> sheet_id,
                    startRowIndex |-> start_row, endRowIndex |-> end_row,
                    startColumnIndex |-> start_col, endColumnIndex |-> end_col],
         cell |-> [userEnteredFormat |-> [wrapStrategy |-> "WRAP"]],
         fields |-> "userEnteredFormat.wrapStrategy"]]

\* Loading the schema: a dict is used as it is; a path is opened and parsed, which
\* fails for a missing file (open) or a malformed one (json.load); then
\* schema["properties"] fails with KeyError when the key is absent.
LoadSchema(schema_path) ==
    CASE schema_path.kind = "dict" ->
            [raises |-> IF schema_path.has_properties THEN "" ELSE "KeyError",
             opened |-> FALSE, properties |-> schema_path.properties]
      [] schema_path.kind = "file" ->
            [raises |-> IF schema_path.has_properties THEN "" ELSE "KeyError",
             opened |-> TRUE, properties |-> schema_path.properties]
      [] schema_path.kind = "missing_file" ->
            [raises |-> "FileNotFoundError", opened |-> TRUE, properties |-> <<>>]
      [] OTHER ->
            [raises |-> "JSONDecodeError", opened |-> TRUE, properties |-> <<>>]

\* a local phase that reads the schema first and validates the name afterwards
ValidateAndLoad_SchemaFirst(table_name, schema_path) ==
    LET loaded == LoadSchema(schema_path)
    IN IF loaded.raises # "" THEN loaded
       ELSE IF ~MatchesNamePattern(table_name)
       THEN [raises |-> "ValueError", opened |-> loaded.opened, properties |-> <<>>]
       ELSE loaded

\* lines 112..122: validate the name, then load the schema
ValidateAndLoad(table_name, schema_path) ==
    IF ~MatchesNamePattern(table_name)
    THEN [raises |-> "ValueError", opened |-> FALSE, properties |-> <<>>]
    ELSE LoadSchema(schema_path)

\* a handler that logs an HttpError and carries on with the next mutation
AfterBatchUpdate_CarryOn(outcome, next_pc, on_success) ==
    CASE outcome = "ok" -> [pc |-> next_pc, ret |-> on_success]
      [] outcome = "HttpError" -> [pc |-> next_pc, ret |-> on_success]
      [] OTHER -> [pc |-> "raised", ret |-> Raise(outcome)]

\* what follows a batchUpdate inside the try block: the next statement on success
\* (the return of `response` after the last one), `return None` on HttpError, and
\* any other exception leaves the function
AfterBatchUpdate(outcome, next_pc, on_success) ==
    CASE outcome = "ok" -> [pc |-> next_pc, ret |-> on_success]
      [] outcome = "HttpError" -> [pc |-> "returned", ret |-> Return(None)]
      [] OTHER -> [pc |-> "raised", ret |-> Raise(outcome)]

BatchUpdate(request, outcome) ==
    Request("spreadsheets.batchUpdate",
            [spreadsheetId |-> args.spreadsheet_id, body |-> [requests |-> <<request>>]], outcome)

create_table_from_schema_build ==
    /\ args.op = "create_table_from_schema"
    /\ pc = "build"
    /\ LET loaded == ValidateAndLoad(args.table_name, args.schema_path)
       IN IF loaded.raises # ""
          THEN /\ pc' = "raised"
               /\ ret' = Raise(loaded.raises)
               /\ locals' = [locals EXCEPT !.file_opened = loaded.opened]
          ELSE /\ pc' = "addTable"
               /\ ret' = ret
               /\ locals' = [locals EXCEPT
                                !.file_opened = loaded.opened,
                                !.end_col = args.start_col + Len(loaded.properties),
                                !.end_row = args.start_row + 2,
                                !.table_request = TableRequest(args.table_name, args.sheet_id,
                                                      args.start_row, args.start_col, loaded.properties)]
    /\ UNCHANGED <<args, calls, remote>>

create_table_from_schema_addTable ==
    /\ args.op = "create_table_from_schema"
    /\ pc = "addTable"
    /\ \E outcome \in RemoteOutcomes :
        LET after == AfterBatchUpdate(outcome, "width", Pending)
            response == PyDict([replies |-> <<locals.table_request>>])
        IN /\ calls' = Append(calls, BatchUpdate(locals.table_request, outcome))
           /\ pc' = after.pc
           /\ ret' = after.ret
           /\ IF outcome = "ok"
              THEN /\ locals' = [locals EXCEPT !.response = response]
                   /\ remote' = [remote EXCEPT !.tables = Append(@, locals.table_request.addTable.table)]
              ELSE UNCHANGED <<locals, remote>>
    /\ UNCHANGED args

create_table_from_schema_width ==
    /\ args.op = "create_table_from_schema"
    /\ pc = "width"
    /\ \E outcome \in RemoteOutcomes :
        LET column_width_request == ColumnWidthRequest(args.sheet_id, args.start_col, locals.end_col)
            after == AfterBatchUpdate(outcome, "wrap", Pending)
        IN /\ calls' = Append(calls, BatchUpdate(column_width_request, outcome))
           /\ pc' = after.pc
           /\ ret' = after.ret
           /\ IF outcome = "ok"
              THEN remote' = [remote EXCEPT !.formats = Append(@, column_width_request)]
              ELSE UNCHANGED remote
    /\ UNCHANGED <<args, locals>>

create_table_from_schema_wrap ==
    /\ args.op = "create_table_from_schema"
    /\ pc = "wrap"
    /\ \E outcome \in RemoteOutcomes :
        LET wrap_request == WrapRequest(args.sheet_id, args.start_row, locals.end_row,
                                        args.start_col, locals.end_col)
            after == AfterBatchUpdate(outcome, "returned", Return(locals.response))
        IN /\ calls' = Append(calls, BatchUpdate(wrap_request, outcome))
           /\ pc' = after.pc
           /\ ret' = after.ret
           /\ IF outcome = "ok"
              THEN remote' = [remote EXCEPT !.formats = Append(@, wrap_request)]
              ELSE UNCHANGED remote
    /\ UNCHANGED <<args, locals>>

(***************************************************************************)
(* One call of create_table_from_schema                                    *)
(***************************************************************************)
MaxNameLen == 3
MaxProps == 2
MaxStart == 2

NameAlphabet == {"M", "y", "1", "_", " ", "/", NL}

DefaultName == <<"F", "l", "a", "s", "h", "c", "a", "r", "d", "s", " ", "T", "a", "b", "l", "e">>
MyTable_1 == <<"M", "y", " ", "T", "a", "b", "l", "e", "_", "1">>
MySlashTable == <<"M", "y", "/", "T", "a", "b", "l", "e">>

NameInputs == SeqsUpTo(NameAlphabet, MaxNameLen) \cup {DefaultName, MyTable_1, MySlashTable}

PropNames == {<<"i", "d">>, <<"f", "N">>, <<"T", "a", "g">>}

\* {type, enum?} descriptors: each declared type, an undeclared and a missing one,
\* and enums (empty, and the same entries in two orders)
DetailsInputs ==
    { [type |-> "string"], [type |-> "number"], [type |-> "integer"], [type |-> "boolean"],
      [type |-> "object"], [description |-> "untyped"],
      [type |-> "string", enum |-> <<"x", "y">>],
      [type |-> "integer", enum |-> <<"y", "x">>],
      [enum |-> <<>>] }

PropInputs == {[name |-> n, details |-> d] : n \in PropNames, d \in DetailsInputs}

\* the properties of a schema, in file order; the keys of a JSON object are distinct
PropertiesInputs ==
    {ps \in SeqsUpTo(PropInputs, MaxProps) :
        \A i, j \in 1..Len(ps) : i # j => ps[i].name # ps[j].name}

GoodSchemas ==
    [kind : {"dict", "file"}, has_properties : {TRUE}, properties : PropertiesInputs]

OneSchema ==
    [kind |-> "file", has_properties |-> TRUE,
     properties |-> <<[name |-> <<"i", "d">>, details |-> [type |-> "string"]]>>]

BadSchemas ==
    [kind : {"dict", "file", "missing_file", "malformed_file"}, has_properties : {FALSE}, properties : {<<>>}]

TableLocals ==
    [file_opened |-> FALSE, end_col |-> 0, end_row |-> 0, table_request |-> <<>>, response |-> None]

TableArgs(names, schemas, starts) ==
    [op : {"create_table_from_schema"}, spreadsheet_id : {"sid"}, sheet_id : {0},
     table_name : names, schema_path : schemas, start_row : starts, start_col : starts]

InitTable ==
    /\ pc = "build"
    /\ args \in TableArgs(NameInputs, {OneSchema}, {0})
                  \cup TableArgs({DefaultName}, GoodSchemas, {0, MaxStart})
                  \cup TableArgs({DefaultName, MySlashTable, <<"M", NL>>}, BadSchemas, {0})
    /\ locals = TableLocals
    /\ ret = Pending
    /\ calls = <<>>
    /\ remote = NoRemote

NextTable ==
    \/ create_table_from_schema_build
    \/ create_table_from_schema_addTable
    \/ create_table_from_schema_width
    \/ create_table_from_schema_wrap

SpecTable == InitTable /\ [][NextTable]_vars

(***************************************************************************)
(* Properties of create_table_from_schema                                  *)
(***************************************************************************)
TableCall == args.op = "create_table_from_schema"

TableRequested == TableCall /\ Len(calls) >= 1

Lowered(str) == [i \in 1..Len(str) |-> lower(str[i])]

\* C6: in the addTable request each schema property is one column, columnIndex
\* 0,1,2,... in property order; without an enum the column is TEXT whatever the
\* declared type and has no validation rule; with an enum it is a DROPDOWN with a
\* ONE_OF_LIST rule over exactly the enum entries in order; the table range spans
\* len(properties) columns and 2 rows from the start row and column.
C6_ColumnsFromSchema ==
    TableRequested =>
        LET table == calls[1].params.body.requests[1].addTable.table
            props == args.schema_path.properties
            cols == table.columnProperties
        IN /\ Len(cols) = Len(props)
           /\ \A i \in 1..Len(cols) :
                LET details == props[i].details
                IN /\ cols[i].columnIndex = i - 1
                   /\ Lowered(cols[i].columnName) = Lowered(props[i].name)
                   /\ "enum" \notin DOMAIN details =>
                        /\ cols[i].columnType = "TEXT"
                        /\ "dataValidationRule" \notin DOMAIN cols[i]
                   /\ "enum" \in DOMAIN details =>
                        /\ cols[i].columnType = "DROPDOWN"
                        /\ cols[i].dataValidationRule.condition.type = "ONE_OF_LIST"
                        /\ LET values == cols[i].dataValidationRule.condition.values
                           IN /\ Len(values) = Len(details["enum"])
                              /\ \A k \in 1..Len(values) :
                                    values[k].userEnteredValue = details["enum"][k]
           /\ table.range.startColumnIndex = args.start_col
           /\ table.range.endColumnIndex - table.range.startColumnIndex = Len(props)
           /\ table.range.startRowIndex = args.start_row
           /\ table.range.endRowIndex - table.range.startRowIndex = 2

\* a table of two columns was requested: a number property as TEXT, then a string
\* property with enum ["x", "y"] as a DROPDOWN over x, y
C6_Witness ==
    /\ TableRequested
    /\ args.start_col = MaxStart
    /\ Len(args.schema_path.properties) = 2
    /\ args.schema_path.properties[1].details = [type |-> "number"]
    /\ args.schema_path.properties[2].details = [type |-> "string", enum |-> <<"x", "y">>]
    /\ LET cols == calls[1].params.body.requests[1].addTable.table.columnProperties
       IN /\ cols[1].columnType = "TEXT"
          /\ cols[2].columnType = "DROPDOWN"
          /\ cols[2].dataValidationRule.condition.values
                = <<[userEnteredValue |-> "x"], [userEnteredValue |-> "y"]>>

NameChars == {chr(c) : c \in (65..90) \cup (97..122) \cup (48..57)} \cup {"_", " "}

\* non-empty, and every character a letter, a digit, an underscore or a space
NameWellFormed(name) == Len(name) >= 1 /\ \A i \in 1..Len(name) : name[i] \in NameChars

NameRejected == pc = "raised" /\ ret = Raise("ValueError")

\* C7: once the name has been checked, it was rejected with the validation error
\* exactly when it is empty or holds a character that is not an ASCII letter, a
\* digit, an underscore or a space, wherever in the string.
C7_NameAcceptedIffWellFormed ==
    (TableCall /\ pc # "build") => (NameRejected <=> ~NameWellFormed(args.table_name))

\* What does hold of the validation: the two names the specification gives are
\* accepted and rejected, and a name is accepted exactly when it is well formed
\* or is a well-formed name followed by one newline.
NameAcceptedUpToTrailingNewline ==
    (TableCall /\ pc # "build") =>
        LET name == args.table_name
        IN /\ name = MyTable_1 => ~NameRejected
           /\ name = MySlashTable => NameRejected
           /\ ~NameRejected <=>
                \/ NameWellFormed(name)
                \/ /\ Len(name) >= 2
                   /\ name[Len(name)] = NL
                   /\ NameWellFormed(SubSeq(name, 1, Len(name) - 1))

LocalFailures == {"ValueError", "FileNotFoundError", "JSONDecodeError", "KeyError"}

\* C8: a call that fails a local validation (name rejected, schema file missing or
\* unparsable) raises with no remote request issued; a rejected name is reported
\* without the schema having been opened; and by the first batchUpdate the name has
\* passed validation and the schema has been loaded.
C8_LocalFailuresBeforeRemote ==
    TableCall =>
        /\ (pc = "raised" /\ ret.value.v \in LocalFailures) => calls = <<>>
        /\ NameRejected => ~locals.file_opened
        /\ calls # <<>> =>
             /\ ~NameRejected
             /\ args.schema_path.kind \in {"dict", "file"}
             /\ args.schema_path.kind = "file" => locals.file_opened
             /\ calls[1].params.body.requests[1].addTable.table.name = args.table_name

\* a malformed name given with a schema file that can be read: the validation error
\* is raised, the file was never opened and no request was issued
C8_Witness ==
    /\ TableCall
    /\ args.table_name = MySlashTable
    /\ args.schema_path.kind = "file"
    /\ NameRejected
    /\ ~locals.file_opened
    /\ calls = <<>>

MutationOrder == <<"addTable", "updateDimensionProperties", "repeatCell">>

\* C9: the mutations are separate batchUpdate requests of one mutation each, in the
\* order addTable, column width (200 px over the table's columns), text wrap (over
\* the header and blank row); a request is issued only after all earlier ones
\* succeeded, there is no other request (no removal), the addTable response is
\* returned only after three successes, and a table once created stays in place.
C9_ThreeMutationsInOrder ==
    TableCall =>
        LET n == Len(calls)
            width == Len(args.schema_path.properties)
        IN /\ n <= 3
           /\ \A i \in 1..n :
                /\ calls[i].method = "spreadsheets.batchUpdate"
                /\ Len(calls[i].params.body.requests) = 1
                /\ DOMAIN calls[i].params.body.requests[1] = {MutationOrder[i]}
           /\ \A i \in 1..(n - 1) : calls[i].outcome = "ok"
           /\ (n >= 1 /\ calls[n].outcome # "ok") =>
                /\ pc \in {"returned", "raised"}
                /\ ret.kind = "return" => ret.value.t = "None"
           /\ n >= 2 =>
                LET w == calls[2].params.body.requests[1].updateDimensionProperties
                IN /\ w.properties.pixelSize = 200
                   /\ w.range.dimension = "COLUMNS"
                   /\ w.range.startIndex = args.start_col
                   /\ w.range.endIndex = args.start_col + width
           /\ n >= 3 =>
                LET c == calls[3].params.body.requests[1].repeatCell
                IN /\ c.cell.userEnteredFormat.wrapStrategy = "WRAP"
                   /\ c.range.startRowIndex = args.start_row
                   /\ c.range.endRowIndex = args.start_row + 2
                   /\ c.range.startColumnIndex = args.start_col
                   /\ c.range.endColumnIndex = args.start_col + width
           /\ (ret.kind = "return" /\ ret.value.t # "None") =>
                /\ n = 3
                /\ \A i \in 1..3 : calls[i].outcome = "ok"
                /\ ret.value = locals.response
           /\ (n >= 1 /\ calls[1].outcome = "ok") =>
                remote.tables = <<calls[1].params.body.requests[1].addTable.table>>

\* the table was created, the width update failed: None is returned, the wrap
\* request was never issued and the table is still there
C9_Witness ==
    /\ TableCall
    /\ Len(calls) = 2
    /\ calls[1].outcome = "ok"
    /\ calls[2].outcome = "HttpError"
    /\ pc = "returned"
    /\ ret = Return(None)
    /\ Len(remote.tables) = 1

PartialApplication ==
    /\ TableCall
    /\ pc \in {"returned", "raised"}
    /\ Len(calls) >= 2
    /\ calls[1].outcome = "ok"
    /\ calls[Len(calls)].outcome # "ok"

\* what the caller receives when the addTable request itself fails in a given way
CreationFailureOutcome(outcome) == AfterBatchUpdate(outcome, "width", Pending).ret

\* C10: the outcome of a partial application (table created, a formatting mutation
\* failed) differs from every outcome of a failed table creation, and from the
\* response returned on full success.
C10_PartialSurfacedDistinctly ==
    PartialApplication =>
        /\ \A o \in RemoteOutcomes \ {"ok"} : ret # CreationFailureOutcome(o)
        /\ ~(ret.kind = "return" /\ ret.value.t = "dict")

(***************************************************************************)
(* Claims about sheet-name resolution                                      *)
(***************************************************************************)
SheetsCall == args.op \in {"add_rows_to_sheet", "get_rows_from_range", "get_all_rows_from_sheet"}

\* the sheet list was fetched successfully by the call's lookup
LookupSucceeded ==
    /\ SheetsCall
    /\ Len(calls) >= 1
    /\ calls[1].method = "spreadsheets.get"
    /\ calls[1].outcome = "ok"

SheetIds == {remote.sheets[i].sheetId : i \in 1..Len(remote.sheets)}

TitleOf(sheet_id) == remote.sheets[CHOOSE i \in 1..Len(remote.sheets) : remote.sheets[i].sheetId = sheet_id].title

\* C11: after a successful fetch of the sheet list the three callers go on with
\* the title of the sheet whose sheetId equals the given id; when no sheet has that
\* id the call raises ValueError (it does not return None) and the lookup is the
\* only request it has issued: no values request follows.
C11_NotFoundReachesCaller ==
    LookupSucceeded =>
        IF args.sheet_id \in SheetIds
        THEN locals.sheet_name = TitleOf(args.sheet_id)
        ELSE /\ pc = "raised"
             /\ ret = Raise("ValueError")
             /\ Len(calls) = 1

\* add_rows_to_sheet on an id no sheet has: ValueError after the lookup alone
C11_Witness ==
    /\ args.op = "add_rows_to_sheet"
    /\ args.sheet_id \notin SheetIds
    /\ LookupSucceeded
    /\ pc = "raised"
    /\ ret = Raise("ValueError")
    /\ Len(calls) = 1

(***************************************************************************)
(* A caller issuing several sheet operations one after another, while the  *)
(* sheets of the spreadsheet may be renamed between two of them            *)
(***************************************************************************)
MaxCalls == 2

TitleC == <<"L", "o", "g">>

OneStrRecord == PyList(<<[k \in {"x"} |-> StrA]>>)
OneMixedListRecord == PyList(<<[k \in {"x"} |-> PyList(<<StrA, PyInt(0)>>)]>>)

\* the calls the caller chooses from; call_no is the position of the call in the session
SessionArgs(n) ==
    [op : {"add_rows_to_sheet"}, spreadsheet_id : {"sid"}, sheet_id : {0, 3},
     rows : {OneStrRecord, OneMixedListRecord}, column_order : {<<"x">>}, call_no : {n}]
    \cup [op : {"get_rows_from_range"}, spreadsheet_id : {"sid"}, sheet_id : {0, 7},
          start_row : {1}, end_row : {2}, start_col : {None}, end_col : {None}, call_no : {n}]
    \cup [op : {"get_all_rows_from_sheet"}, spreadsheet_id : {"sid"}, sheet_id : {7}, call_no : {n}]

FirstStep(a) == IF a.op = "add_rows_to_sheet" THEN "project" ELSE "resolve"

InitSession ==
    /\ args \in SessionArgs(1)
    /\ pc = FirstStep(args)
    /\ locals = NoLocals
    /\ ret = Pending
    /\ calls = <<>>
    /\ remote = [sheets |-> Sheets, values |-> FixedGrid, tables |-> <<>>, formats |-> <<>>,
                 renames |-> <<>>]

\* the previous call has returned or raised: the caller makes its next call, which
\* starts with fresh locals; nothing is carried over from the previous call
next_call ==
    /\ pc \in {"returned", "raised"}
    /\ args.call_no < MaxCalls
    /\ args' \in SessionArgs(args.call_no + 1)
    /\ pc' = FirstStep(args')
    /\ locals' = NoLocals
    /\ ret' = Pending
    /\ UNCHANGED <<calls, remote>>

\* another party gives a sheet of the spreadsheet a title no sheet has. This can
\* happen at any time: between two calls, and also within a call, between its
\* lookup and its values request. The spreadsheet's history records the rename
\* and how many requests of the caller had been answered before it.
rename_sheet ==
    /\ \A j \in 1..Len(remote.sheets) : remote.sheets[j].title # TitleC
    /\ \E i \in 1..Len(remote.sheets) :
          remote' = [remote EXCEPT
                        !.sheets[i].title = TitleC,
                        !.renames = Append(@, [sheetId |-> remote.sheets[i].sheetId,
                                               title |-> TitleC,
                                               after_request |-> Len(calls)])]
    /\ UNCHANGED <<pc, args, locals, ret, calls>>

NextSession ==
    \/ NextSheets
    \/ next_call
    \/ rename_sheet

SpecSession == InitSession /\ [][NextSession]_vars

RECURSIVE CountMethod(_, _)
CountMethod(log, method) ==
    IF log = <<>> THEN 0
    ELSE (IF Head(log).method = method THEN 1 ELSE 0) + CountMethod(Tail(log), method)

Lookups == CountMethod(calls, "spreadsheets.get")

ValuesMethods == {"spreadsheets.values.get", "spreadsheets.values.append"}

CallFinished == pc \in {"returned", "raised"}

\* every values request in the log directly follows a successful lookup
ValuesRequestFollowsLookup ==
    \A j \in 1..Len(calls) :
        calls[j].method \in ValuesMethods =>
            /\ j > 1
            /\ calls[j - 1].method = "spreadsheets.get"
            /\ calls[j - 1].outcome = "ok"

\* the sheet the call addresses was renamed after the call's lookup was answered
\* (the lookup is the last request issued while the call waits to send its values
\* request)
RenamedSinceLookup ==
    \E r \in 1..Len(remote.renames) :
        /\ remote.renames[r].sheetId = args.sheet_id
        /\ remote.renames[r].after_request >= Len(calls)

\* the call that is about to issue its values request addresses the sheet by the
\* title it has now, every rename made before the call's lookup included
AddressesCurrentTitle ==
    (pc \in {"fetch", "append"} /\ ~RenamedSinceLookup) => locals.sheet_name = TitleOf(args.sheet_id)

\* a rename that falls between the lookup and the values request of one call is not
\* seen by that call: it sends the title its lookup read
AddressesTitleOfItsLookup ==
    (pc \in {"fetch", "append"} /\ RenamedSinceLookup) =>
        /\ locals.sheet_name # TitleOf(args.sheet_id)
        /\ locals.sheet_name \in {Sheets[i].title : i \in 1..Len(Sheets)}

\* a sheet was renamed while a call was between its lookup and its values request
RenamedWithinCall ==
    /\ pc \in {"fetch", "append"}
    /\ RenamedSinceLookup

\* C12: sheet names are never memoized: every call of add_rows_to_sheet,
\* get_rows_from_range and get_all_rows_from_sheet issues exactly one lookup of
\* its own, before its values request, so after k calls exactly k lookups have
\* been issued, and a sheet renamed between two calls is addressed by its new title.
C12_OneLookupPerCall ==
    /\ CallFinished => Lookups = args.call_no
    /\ ValuesRequestFollowsLookup
    /\ AddressesCurrentTitle

\* the calls that project their rows without raising, and all the reading calls
Projects(a) == a.op = "add_rows_to_sheet" => ~ProjectionRaises(ProjectRows(a.rows, a.column_order))

\* what holds of the resolver: a call that reaches name resolution issues one
\* lookup and no call reuses a title an earlier call has read
LookupPerResolvingCall ==
    /\ CallFinished => Lookups <= args.call_no
    /\ (CallFinished /\ Projects(args) /\ args.call_no = 1) => Lookups = 1
    /\ ValuesRequestFollowsLookup
    /\ AddressesCurrentTitle
    /\ AddressesTitleOfItsLookup

\* a second call made after a rename is about to address the sheet by its new title
RenamedSheetAddressed ==
    /\ args.call_no = 2
    /\ pc \in {"fetch", "append"}
    /\ locals.sheet_name = TitleC
    /\ Lookups = 2

(***************************************************************************)
(* create_sheet                                                            *)
(***************************************************************************)
\* the HttpError instance the except clause has caught
HttpErrorObject == [t |-> "HttpError", v |-> <<>>]

NewSpreadsheetId == PyStr(<<"s", "i", "d">>)

create_sheet ==
    /\ args.op = "create_sheet"
    /\ pc = "create"
    /\ \E outcome \in RemoteOutcomes :
        /\ calls' = Append(calls, Request("spreadsheets.create",
                               [body |-> [properties |-> [title |-> args.title]],
                                fields |-> "spreadsheetId"], outcome))
        /\ CASE outcome = "ok" -> pc' = "returned" /\ ret' = Return(NewSpreadsheetId)
             [] outcome = "HttpError" -> pc' = "returned" /\ ret' = Return(HttpErrorObject)
             [] OTHER -> pc' = "raised" /\ ret' = Raise(outcome)
    /\ UNCHANGED <<args, locals, remote>>

(***************************************************************************)
(* add_sheet_to_spreadsheet                                                *)
(***************************************************************************)
DefaultColumns == 50

SheetN(n) == <<"S", "h", "e", "e", "t">> \o IntToStr(n)

ExistingTitles(sheets) == {sheets[i].title : i \in 1..Len(sheets)}

\* sheet_title = f"Sheet{len(existing_titles) + 1}"
GeneratedTitle(sheets) == SheetN(Len(sheets) + 1)

Positive(n) == n.t # "None" /\ n.v > 0

\* grid_properties: the keys set by the two tests on num_columns and num_rows
GridProperties(num_columns, num_rows) ==
    [k \in (IF Positive(num_columns) THEN {"columnCount"} ELSE {})
            \cup (IF Positive(num_rows) THEN {"rowCount"} ELSE {}) |->
        IF k = "columnCount" THEN num_columns.v ELSE num_rows.v]

\* ",".join(fields)
GridFields(num_columns, num_rows) ==
    CASE Positive(num_columns) /\ Positive(num_rows) -> "gridProperties.columnCount,gridProperties.rowCount"
      [] Positive(num_columns) -> "gridProperties.columnCount"
      [] Positive(num_rows) -> "gridProperties.rowCount"
      [] OTHER -> ""

AddSheetRequest(sheet_title) == [addSheet |-> [properties |-> [title |-> sheet_title]]]

UpdateSheetPropertiesRequest(new_sheet_id, num_columns, num_rows) ==
    [updateSheetProperties |->
        [properties |-> [sheetId |-> new_sheet_id,
                         gridProperties |-> GridProperties(num_columns, num_rows)],
         fields |-> GridFields(num_columns, num_rows)]]

\* the ids the service gives to a new sheet: any id no sheet has
FreshSheetIds == {11, 12}

\* no title was given: read the sheets and take 'SheetN' for the title
add_sheet_to_spreadsheet_title ==
    /\ args.op = "add_sheet_to_spreadsheet"
    /\ pc = "title"
    /\ \E outcome \in RemoteOutcomes :
        LET after == AfterBatchUpdate(outcome, "addSheet", Pending)
        IN /\ calls' = Append(calls, Request("spreadsheets.get",
                                  [spreadsheetId |-> args.spreadsheet_id], outcome))
           /\ pc' = after.pc
           /\ ret' = after.ret
           /\ IF outcome = "ok"
              THEN locals' = [locals EXCEPT !.sheet_title = PyStr(GeneratedTitle(remote.sheets))]
              ELSE UNCHANGED locals
    /\ UNCHANGED <<args, remote>>

\* the addSheet request; the service refuses a title that a sheet already has
add_sheet_to_spreadsheet_addSheet ==
    /\ args.op = "add_sheet_to_spreadsheet"
    /\ pc = "addSheet"
    /\ \E outcome \in RemoteOutcomes, new_sheet_id \in FreshSheetIds :
        LET grid_properties == GridProperties(args.num_columns, args.num_rows)
            after == IF DOMAIN grid_properties # {}
                     THEN AfterBatchUpdate(outcome, "grid", Pending)
                     ELSE AfterBatchUpdate(outcome, "returned", Return(PyInt(new_sheet_id)))
        IN /\ outcome = "ok" => locals.sheet_title.v \notin ExistingTitles(remote.sheets)
           /\ calls' = Append(calls, BatchUpdate(AddSheetRequest(locals.sheet_title.v), outcome))
           /\ pc' = after.pc
           /\ ret' = after.ret
           /\ IF outcome = "ok"
              THEN /\ locals' = [locals EXCEPT !.new_sheet_id = PyInt(new_sheet_id)]
                   /\ remote' = [remote EXCEPT !.sheets =
                                    Append(@, [sheetId |-> new_sheet_id, title |-> locals.sheet_title.v])]
              ELSE UNCHANGED <<locals, remote>>
    /\ UNCHANGED args

\* the follow-up request that sets the grid size of the new sheet
add_sheet_to_spreadsheet_grid ==
    /\ args.op = "add_sheet_to_spreadsheet"
    /\ pc = "grid"
    /\ \E outcome \in RemoteOutcomes :
        LET update_request == UpdateSheetPropertiesRequest(locals.new_sheet_id.v, args.num_columns, args.num_rows)
            after == AfterBatchUpdate(outcome, "returned", Return(locals.new_sheet_id))
        IN /\ calls' = Append(calls, BatchUpdate(update_request, outcome))
           /\ pc' = after.pc
           /\ ret' = after.ret
           /\ IF outcome = "ok"
              THEN remote' = [remote EXCEPT !.formats = Append(@, update_request)]
              ELSE UNCHANGED remote
    /\ UNCHANGED <<args, locals>>

MaxSheets == 2

\* titles of the sheets of a spreadsheet: default titles (some in use, some freed by
\* a deletion or a rename) and a title a user gave
TitlePool == {SheetN(n) : n \in 1..(MaxSheets + 1)} \cup {TitleB}

\* the sheets of the spreadsheet before the call: one at least, titles distinct
SheetLists ==
    {[i \in 1..Len(ts) |-> [sheetId |-> 7 * (i - 1), title |-> ts[i]]] :
        ts \in {s \in SeqsUpTo(TitlePool, MaxSheets) :
                   /\ Len(s) >= 1
                   /\ \A i, j \in 1..Len(s) : i # j => s[i] # s[j]}}

InitAddSheet ==
    /\ \/ /\ args \in [op : {"create_sheet"}, title : {TitleA, TitleB}]
          /\ pc = "create"
          /\ locals = [sheet_title |-> None, new_sheet_id |-> None]
          /\ remote = NoRemote
       \/ /\ args \in [op : {"add_sheet_to_spreadsheet"}, spreadsheet_id : {"sid"},
                       sheet_title : {None, PyStr(TitleB), PyStr(SheetN(1))},
                       num_columns : {None, PyInt(0), PyInt(-1), PyInt(DefaultColumns)},
                       num_rows : {None, PyInt(0), PyInt(3)}]
          /\ pc = IF args.sheet_title.t = "None" THEN "title" ELSE "addSheet"
          /\ locals = [sheet_title |-> args.sheet_title, new_sheet_id |-> None]
          /\ remote \in [sheets : SheetLists, values : {<<>>}, tables : {<<>>}, formats : {<<>>}]
    /\ ret = Pending
    /\ calls = <<>>

NextAddSheet ==
    \/ create_sheet
    \/ add_sheet_to_spreadsheet_title
    \/ add_sheet_to_spreadsheet_addSheet
    \/ add_sheet_to_spreadsheet_grid

SpecAddSheet == InitAddSheet /\ [][NextAddSheet]_vars

(***************************************************************************)
(* Claims about the failure sentinel and about added sheets                *)
(***************************************************************************)
GatewayOps ==
    {"create_sheet", "add_sheet_to_spreadsheet", "create_table_from_schema",
     "add_rows_to_sheet", "get_rows_from_range", "get_all_rows_from_sheet"}

\* the operation has ended on a request that failed with an HttpError
EndedOnHttpError ==
    /\ args.op \in GatewayOps
    /\ CallFinished
    /\ Len(calls) >= 1
    /\ calls[Len(calls)].outcome = "HttpError"

\* C13: when a remote call of a gateway operation fails with a remote-operation
\* error (HttpError), the operation does not raise: it returns None.
C13_FailureSentinelIsNone ==
    EndedOnHttpError => (pc = "returned" /\ ret = Return(None))

\* the operations other than create_sheet in this specification do return None
SentinelOfAddSheet ==
    (EndedOnHttpError /\ args.op = "add_sheet_to_spreadsheet") => (pc = "returned" /\ ret = Return(None))

\* the title was generated and the addSheet request is about to be issued with it
TitleGenerated ==
    /\ args.op = "add_sheet_to_spreadsheet"
    /\ args.sheet_title.t = "None"
    /\ pc = "addSheet"

\* C18: when no title is given, the generated title 'SheetN' is not the title of
\* any sheet of the spreadsheet, whatever titles the sheets have.
C18_GeneratedTitleIsFree ==
    TitleGenerated => locals.sheet_title.v \notin ExistingTitles(remote.sheets)

\* what the code does guarantee: N is one more than the number of sheets
GeneratedTitleCountsSheets ==
    TitleGenerated => locals.sheet_title.v = SheetN(Len(remote.sheets) + 1)

IsAddSheet(call) ==
    /\ call.method = "spreadsheets.batchUpdate"
    /\ "addSheet" \in DOMAIN call.params.body.requests[1]

IsGridUpdate(call) ==
    /\ call.method = "spreadsheets.batchUpdate"
    /\ "updateSheetProperties" \in DOMAIN call.params.body.requests[1]

\* the addSheet request was executed: the spreadsheet has one more sheet
SheetAdded == \E j \in 1..Len(calls) : IsAddSheet(calls[j]) /\ calls[j].outcome = "ok"

AddSheetFinished == args.op = "add_sheet_to_spreadsheet" /\ CallFinished

\* C19: add_sheet_to_spreadsheet returns None only if no sheet was added and
\* returns the id of the new sheet whenever one was added, for every outcome of its
\* remote calls; the grid-size update follows a successful addSheet exactly when
\* num_columns or num_rows is positive.
C19_IdIffSheetAdded ==
    AddSheetFinished =>
        /\ (pc = "returned" /\ ret = Return(None)) => ~SheetAdded
        /\ SheetAdded => (pc = "returned" /\ ret = Return(locals.new_sheet_id)
                             /\ locals.new_sheet_id.t = "int")
        /\ (\E j \in 1..Len(calls) : IsGridUpdate(calls[j]))
              <=> (SheetAdded /\ (Positive(args.num_columns) \/ Positive(args.num_rows)))

\* what holds for every outcome: the id is returned exactly when every request
\* succeeded, and the grid-size update is issued as described
IdIffAllRequestsSucceeded ==
    AddSheetFinished =>
        /\ (pc = "returned" /\ ret.value.t = "int")
              <=> (SheetAdded /\ \A j \in 1..Len(calls) : calls[j].outcome = "ok")
        /\ (pc = "returned" /\ ret.value.t = "int") => ret.value = locals.new_sheet_id
        /\ (\E j \in 1..Len(calls) : IsGridUpdate(calls[j]))
              <=> (SheetAdded /\ (Positive(args.num_columns) \/ Positive(args.num_rows)))

(***************************************************************************)
(* upload_file (google_drive_api): a resumable upload driven chunk by      *)
(* chunk, reporting to a progress callback and a completion callback       *)
(***************************************************************************)
\* chunksize=1024*1024
ChunkSize == 1048576

MaxChunks == 3

SharedDriveId ==
    <<"0", "A", "F", "8", "A", "b", "u", "E", "b", "P", "r", "C", "O", "U", "k", "9", "P", "V", "A">>

FileName == <<"f", ".", "t", "x", "t">>

FileId == PyStr(<<"i", "d", "1">>)

\* the response of the request that completes the upload
UploadResponse == PyDict([id |-> FileId])

\* one entry of the trace of what upload_file has done so far: a call of one of the
\* callbacks or a request for the next chunk
ProgressCall(uploaded_bytes, total_size) ==
    [what |-> "progress_callback", uploaded |-> uploaded_bytes, total |-> total_size,
     filename |-> FileName, error |-> "", response |-> None]

CompletionCall(error, response) ==
    [what |-> "completion_callback", uploaded |-> 0, total |-> 0,
     filename |-> <<>>, error |-> error, response |-> response]

\* result is "status" (more to send), "done" (a response came) or the error raised
NextChunkCall(result, uploaded_bytes) ==
    [what |-> "next_chunk", uploaded |-> uploaded_bytes, total |-> 0,
     filename |-> <<>>, error |-> (IF result \in {"status", "done"} THEN "" ELSE result),
     response |-> (IF result = "done" THEN UploadResponse ELSE None)]

\* if progress_callback: progress_callback(...)
WithProgress(trace, uploaded_bytes, total_size) ==
    IF args.progress_callback THEN Append(trace, ProgressCall(uploaded_bytes, total_size)) ELSE trace

\* if completion_callback: completion_callback(...)
WithCompletion(trace, error, response) ==
    IF args.completion_callback THEN Append(trace, CompletionCall(error, response)) ELSE trace

FileMetadata(mime_type, parent_id) ==
    [name |-> FileName, driveId |-> SharedDriveId, mimeType |-> mime_type,
     parents |-> IF Truthy(parent_id) THEN <<parent_id.v>> ELSE <<SharedDriveId>>]

\* a handler that swallows the chunk error and asks for the chunk again
AfterChunkError_Retry(chunk_error, trace) ==
    [pc |-> "next_chunk", ret |-> Pending, trace |-> trace]

\* except Exception as chunk_error: the completion callback, then raise; the error
\* leaves the loop and is caught by the outer handler, which calls the completion
\* callback again and re-raises it
AfterChunkError(chunk_error, trace) ==
    [pc |-> "raised",
     ret |-> Raise(chunk_error),
     trace |-> WithCompletion(WithCompletion(trace, chunk_error, None), chunk_error, None)]

\* an end of the upload that calls the completion callback before the last progress
AfterCompletion_CompletionFirst(response, total_size, trace) ==
    [pc |-> "returned",
     ret |-> Return(response.v.id),
     trace |-> WithProgress(WithCompletion(trace, "", response), total_size, total_size)]

\* the loop has ended with a response: file_id, the final progress update, the
\* completion callback, return file_id
AfterCompletion(response, total_size, trace) ==
    [pc |-> "returned",
     ret |-> Return(response.v.id),
     trace |-> WithCompletion(WithProgress(trace, total_size, total_size), "", response)]

Min(a, b) == IF a < b THEN a ELSE b

\* the errors that building the media object and the request can raise locally
BuildOutcomes == {"ok", "OSError"}

\* from the entry of upload_file to the creation of the upload request: the
\* existence check, the size, the initial progress update, the media object
upload_file_begin ==
    /\ args.op = "upload_file"
    /\ pc = "begin"
    /\ IF args.source.kind = "path" /\ ~args.source.exists
       THEN pc' = "raised" /\ ret' = Raise("FileNotFoundError") /\ UNCHANGED locals
       ELSE \E built \in BuildOutcomes :
               LET total_size == args.source.size
                   started == WithProgress(locals.trace, 0, total_size)
               IN IF built = "ok"
                  THEN /\ pc' = "next_chunk"
                       /\ UNCHANGED ret
                       /\ locals' = [locals EXCEPT !.total_size = total_size,
                                                   !.file_metadata = FileMetadata(args.mime_type, args.parent_id),
                                                   !.uploaded_bytes = 0,
                                                   !.trace = started]
                  ELSE /\ pc' = "raised"
                       /\ ret' = Raise(built)
                       /\ locals' = [locals EXCEPT !.total_size = total_size,
                                                   !.file_metadata = FileMetadata(args.mime_type, args.parent_id),
                                                   !.trace = WithCompletion(started, built, None)]
    /\ UNCHANGED <<args, calls, remote>>

\* one evaluation of the while loop: request.next_chunk() sends the next chunk;
\* the service answers with a status while bytes remain, with the response when
\* it has them all, or the request fails. A status is only returned for a file
\* that is not empty, so the division by total_size in the progress line is defined.
upload_file_next_chunk ==
    /\ args.op = "upload_file"
    /\ pc = "next_chunk"
    /\ \E outcome \in RemoteOutcomes :
        LET sent == Min(locals.uploaded_bytes + ChunkSize, locals.total_size)
            done == sent = locals.total_size
            result == IF outcome # "ok" THEN outcome ELSE IF done THEN "done" ELSE "status"
            requested == Append(locals.trace, NextChunkCall(result, sent))
            after == CASE result = "done" -> AfterCompletion(UploadResponse, locals.total_size, requested)
                       [] result = "status" ->
                            [pc |-> "next_chunk", ret |-> Pending,
                             trace |-> WithProgress(requested, sent, locals.total_size)]
                       [] OTHER -> AfterChunkError(outcome, requested)
        IN /\ calls' = Append(calls, Request("files.create.next_chunk",
                                  [body |-> locals.file_metadata, fields |-> "id",
                                   supportsAllDrives |-> TRUE, resumable_progress |-> locals.uploaded_bytes], outcome))
           /\ pc' = after.pc
           /\ ret' = after.ret
           /\ locals' = [locals EXCEPT !.trace = after.trace,
                                       !.uploaded_bytes = IF result = "status" THEN sent ELSE @]
           /\ remote' = IF result = "done"
                        THEN [remote EXCEPT !.files = Append(@, locals.file_metadata)]
                        ELSE remote
    /\ UNCHANGED args

\* the sizes of the files uploaded: empty, less than a chunk, whole chunks, a
\* partly filled last chunk
FileSizes ==
    {k * ChunkSize + r : k \in 0..(MaxChunks - 1), r \in {0, 1}} \cup {MaxChunks * ChunkSize}

Sources ==
    [kind : {"path", "stream"}, exists : {TRUE}, size : FileSizes]
        \cup [kind : {"path"}, exists : {FALSE}, size : {0}]

InitUpload ==
    /\ pc = "begin"
    /\ args \in [op : {"upload_file"}, source : Sources, mime_type : {"text/plain"},
                 parent_id : {None, PyStr(<<>>), PyStr(<<"p">>)},
                 progress_callback : BOOLEAN, completion_callback : BOOLEAN]
    /\ locals = [total_size |-> 0, uploaded_bytes |-> 0, file_metadata |-> <<>>, trace |-> <<>>]
    /\ ret = Pending
    /\ calls = <<>>
    /\ remote = [files |-> <<>>]

NextUpload ==
    \/ upload_file_begin
    \/ upload_file_next_chunk

SpecUpload == InitUpload /\ [][NextUpload]_vars

\* upload_file runs to its end: the loop is not suspended for ever
SpecUploadFair == SpecUpload /\ WF_vars(NextUpload)

(***************************************************************************)
(* Claims about upload_file                                                *)
(***************************************************************************)
UploadCall == args.op = "upload_file"

\* the call got past the check that the local file exists
PastExistenceCheck == UploadCall /\ pc # "begin" /\ ~(args.source.kind = "path" /\ ~args.source.exists)

Trace == locals.trace

IsChunk(e) == e.what = "next_chunk"
IsProgress(e) == e.what = "progress_callback"
IsCompletion(e) == e.what = "completion_callback"
ChunkFailed(e) == IsChunk(e) /\ e.error # ""
ChunkGaveStatus(e) == IsChunk(e) /\ e.error = "" /\ e.response.t = "None"
ChunkGaveResponse(e) == IsChunk(e) /\ e.response.t = "dict"

\* C14: once a next-chunk request has failed, no further chunk is requested and no
\* progress is reported after it, the failed request is the last one issued, and
\* upload_file raises the error that request raised: it returns no file id.
C14_ChunkFailureAborts ==
    UploadCall =>
        \A i \in 1..Len(Trace) :
            ChunkFailed(Trace[i]) =>
                /\ \A j \in (i + 1)..Len(Trace) : ~IsChunk(Trace[j]) /\ ~IsProgress(Trace[j])
                /\ calls[Len(calls)].outcome = Trace[i].error
                /\ \A k \in 1..(Len(calls) - 1) : calls[k].outcome = "ok"
                /\ pc = "raised"
                /\ ret = Raise(Trace[i].error)

\* a chunk was accepted, the next one failed, and the upload has been aborted
C14_Witness ==
    /\ UploadCall
    /\ pc = "raised"
    /\ Len(calls) = 2
    /\ calls[1].outcome = "ok"
    /\ calls[2].outcome = "TransportError"
    /\ ret = Raise("TransportError")
    /\ \E i \in 1..Len(Trace) : ChunkGaveStatus(Trace[i])
    /\ \E i \in 1..Len(Trace) : ChunkFailed(Trace[i])

CountWhere(trace, Test(_)) == Cardinality({i \in 1..Len(trace) : Test(trace[i])})

\* the bytes uploaded so far once the chunks up to position i of the trace were sent
BytesAfter(i) ==
    Min(CountWhere(SubSeq(Trace, 1, i), IsChunk) * ChunkSize, locals.total_size)

\* the callbacks are called in the order and with the values the upload protocol
\* prescribes, as far as the upload has got
ProgressProtocol ==
    PastExistenceCheck =>
        /\ args.progress_callback =>
              /\ Len(Trace) >= 1
              /\ Trace[1] = ProgressCall(0, locals.total_size)
              /\ \A i \in 1..Len(Trace) :
                    ChunkGaveStatus(Trace[i]) =>
                        /\ i < Len(Trace)
                        /\ Trace[i + 1] = ProgressCall(BytesAfter(i), locals.total_size)
              /\ CountWhere(Trace, IsProgress) =
                    1 + CountWhere(Trace, ChunkGaveStatus) + (IF pc = "returned" THEN 1 ELSE 0)
        /\ \A i \in 1..Len(Trace) : ChunkGaveResponse(Trace[i]) => pc = "returned"
        /\ pc = "next_chunk" => \A i \in 1..Len(Trace) : IsChunk(Trace[i]) => ChunkGaveStatus(Trace[i])
        /\ pc = "returned" =>
              LET n == Len(Trace)
                  tail == (IF args.progress_callback THEN <<ProgressCall(locals.total_size, locals.total_size)>> ELSE <<>>)
                             \o (IF args.completion_callback THEN <<CompletionCall("", UploadResponse)>> ELSE <<>>)
              IN /\ ret = Return(FileId)
                 /\ Len(remote.files) = 1
                 /\ n > Len(tail)
                 /\ ChunkGaveResponse(Trace[n - Len(tail)])
                 /\ SubSeq(Trace, n - Len(tail) + 1, n) = tail
                 /\ BytesAfter(n) = locals.total_size
        /\ pc # "returned" => remote.files = <<>>

\* C15: upload_file requests the next chunk until the service reports completion;
\* the progress callback is called first with (0, total, name) before any chunk,
\* then once after every chunk that returns a status with the bytes uploaded so
\* far, and last with (total, total, name) after completion and before the
\* completion callback (None, response); the file id is returned only after
\* completion; and the call ends, the service reporting completion or an error
\* after finitely many chunks.
C15_ChunkedUpload == []ProgressProtocol /\ <>CallFinished

\* a file of more than two chunks uploaded to the end with both callbacks given
C15_Witness ==
    /\ UploadCall
    /\ pc = "returned"
    /\ args.progress_callback
    /\ args.completion_callback
    /\ CountWhere(Trace, ChunkGaveStatus) >= 2
    /\ Trace[Len(Trace)] = CompletionCall("", UploadResponse)
    /\ Trace[Len(Trace) - 1] = ProgressCall(locals.total_size, locals.total_size)
    /\ ret = Return(FileId)

CompletionCalls == SelectSeq(Trace, IsCompletion)

\* C20: a call with a completion callback that gets past the existence check calls
\* it exactly once before it returns or raises: with (None, response) on success,
\* with (error, None) on a failure, be it in building the request or in a chunk.
C20_CompletionExactlyOnce ==
    (PastExistenceCheck /\ CallFinished /\ args.completion_callback) =>
        CompletionCalls =
            <<IF pc = "returned" THEN CompletionCall("", UploadResponse)
                                 ELSE CompletionCall(ret.value.v, None)>>

\* the completion callback is called once on success and on a failure to build the
\* request; never before the end of the call
CompletionOnceUnlessChunkFails ==
    (PastExistenceCheck /\ args.completion_callback) =>
        /\ ~CallFinished => CompletionCalls = <<>>
        /\ (pc = "returned" \/ (pc = "raised" /\ calls = <<>>)) => Len(CompletionCalls) = 1

(***************************************************************************)
(* create_email_message, create_draft, update_draft (gmail_api)            *)
(***************************************************************************)
\* message['To'] = ', '.join(to) for a list, to itself for a str
HeaderValue(value) == IF value.t = "list" THEN Join(<<",", " ">>, value.v) ELSE value.v

HeaderArgs == [Subject |-> "subject", To |-> "to", Cc |-> "cc", Bcc |-> "bcc"]

\* the headers set: one for every argument that is truthy
Headers(a) ==
    [h \in {k \in DOMAIN HeaderArgs : Truthy(a[HeaderArgs[k]])} |-> HeaderValue(a[HeaderArgs[h]])]

TextPart(subtype, text) == [kind |-> "text", subtype |-> subtype, payload |-> text, filename |-> <<>>]

\* a MIMEBase('application', 'octet-stream') part with a Content-Disposition header
AttachmentPart(payload, filename) ==
    [kind |-> "attachment", subtype |-> "octet-stream", payload |-> payload, filename |-> filename]

\* the text parts: plain and html under 'alternative' when html_body is given,
\* else the plain body if there is one
BodyParts(a) ==
    IF Truthy(a.html_body)
    THEN <<TextPart("plain", IF Truthy(a.body) THEN a.body.v ELSE <<>>), TextPart("html", a.html_body.v)>>
    ELSE IF Truthy(a.body) THEN <<TextPart("plain", a.body.v)>> ELSE <<>>

\* for attachment_path in attachments: if os.path.exists(attachment_path): attach it.
\* A path that does not exist is passed over.
RECURSIVE LocalAttachments(_)
LocalAttachments(paths) ==
    IF paths = <<>> THEN <<>>
    ELSE IF Head(paths).exists
    THEN <<AttachmentPart(Head(paths).content, Head(paths).basename)>> \o LocalAttachments(Tail(paths))
    ELSE LocalAttachments(Tail(paths))

\* url.split('/')[-1]
RECURSIVE LastSegment(_)
LastSegment(url) ==
    IF url = <<>> THEN <<>>
    ELSE IF url[Len(url)] = "/" THEN <<>>
    ELSE LastSegment(SubSeq(url, 1, Len(url) - 1)) \o <<url[Len(url)]>>

\* the part for one item of attachment_urls; a failed download is passed over
UrlAttachment(item, fetched) ==
    IF ~Truthy(item.url) \/ fetched # "ok" THEN <<>>
    ELSE LET filename == IF Truthy(item.filename) THEN item.filename.v
                         ELSE IF LastSegment(item.url.v) # <<>> THEN LastSegment(item.url.v)
                         ELSE <<"a", "t", "t", "a", "c", "h", "m", "e", "n", "t">>
         IN <<AttachmentPart(item.url.v, filename)>>

\* create_email_message; attachment_urls holds at most one item here
create_email_message(a, fetched) ==
    LET local == IF Truthy(a.attachments) THEN LocalAttachments(a.attachments.v) ELSE <<>>
        from_urls == IF Truthy(a.attachment_urls) THEN UrlAttachment(a.attachment_urls.v[1], fetched) ELSE <<>>
    IN [subtype |-> IF Truthy(a.html_body) THEN "alternative" ELSE "mixed",
        headers |-> Headers(a),
        parts |-> BodyParts(a) \o local \o from_urls]

\* base64.urlsafe_b64encode(message.as_bytes()).decode('utf-8')
RawMessage(message) == [urlsafe_b64 |-> message]

\* draft_request, with the thread id when one is given
DraftRequest(message, thread_id) ==
    [message |-> [k \in {"raw"} \cup (IF Truthy(thread_id) THEN {"threadId"} ELSE {}) |->
                     IF k = "raw" THEN RawMessage(message) ELSE thread_id.v]]

\* the download of a URL attachment is a request of its own
UrlFetches(a, fetched) ==
    IF Truthy(a.attachment_urls) /\ Truthy(a.attachment_urls.v[1].url)
    THEN <<Request("requests.get", [url |-> a.attachment_urls.v[1].url.v], fetched)>>
    ELSE <<>>

FetchOutcomes(a) ==
    IF Truthy(a.attachment_urls) /\ Truthy(a.attachment_urls.v[1].url) THEN {"ok", "RequestException"} ELSE {"ok"}

\* the first statements of create_draft and update_draft: build the message and
\* the draft request
BuildDraftRequest(thread_id) ==
    \E fetched \in FetchOutcomes(args) :
        LET message == create_email_message(args, fetched)
        IN /\ calls' = calls \o UrlFetches(args, fetched)
           /\ pc' = "execute"
           /\ locals' = [locals EXCEPT !.message = message,
                                       !.draft_request = DraftRequest(message, thread_id)]
           /\ UNCHANGED <<args, ret, remote>>

create_draft_message ==
    /\ args.op = "create_draft"
    /\ pc = "message"
    /\ BuildDraftRequest(args.thread_id)

NewDraftId == "d2"

create_draft_create ==
    /\ args.op = "create_draft"
    /\ pc = "execute"
    /\ \E outcome \in RemoteOutcomes :
        LET draft == [id |-> NewDraftId, message |-> locals.draft_request.message]
        IN /\ calls' = Append(calls, Request("users.drafts.create",
                                  [userId |-> "me", body |-> locals.draft_request], outcome))
           /\ CASE outcome = "ok" ->
                     /\ pc' = "returned"
                     /\ ret' = Return(PyDict(draft))
                     /\ remote' = [remote EXCEPT !.drafts = Append(@, draft)]
                [] outcome = "HttpError" -> pc' = "returned" /\ ret' = Return(None) /\ UNCHANGED remote
                [] OTHER -> pc' = "raised" /\ ret' = Raise(outcome) /\ UNCHANGED remote
    /\ UNCHANGED <<args, locals>>

update_draft_message ==
    /\ args.op = "update_draft"
    /\ pc = "message"
    /\ BuildDraftRequest(None)

\* the service answers a request for a draft it does not have with an HttpError
update_draft_update ==
    /\ args.op = "update_draft"
    /\ pc = "execute"
    /\ \E outcome \in RemoteOutcomes :
        LET updated_draft == [id |-> args.draft_id, message |-> locals.draft_request.message]
        IN /\ outcome = "ok" => \E i \in 1..Len(remote.drafts) : remote.drafts[i].id = args.draft_id
           /\ calls' = Append(calls, Request("users.drafts.update",
                                  [userId |-> "me", id |-> args.draft_id, body |-> locals.draft_request], outcome))
           /\ CASE outcome = "ok" ->
                     /\ pc' = "returned"
                     /\ ret' = Return(PyDict(updated_draft))
                     /\ remote' = [remote EXCEPT !.drafts =
                                      [i \in 1..Len(@) |-> IF @[i].id = args.draft_id THEN updated_draft ELSE @[i]]]
                [] outcome = "HttpError" -> pc' = "returned" /\ ret' = Return(None) /\ UNCHANGED remote
                [] OTHER -> pc' = "raised" /\ ret' = Raise(outcome) /\ UNCHANGED remote
    /\ UNCHANGED <<args, locals>>

\* the mailbox's drafts without the draft of the given id
WithoutDraft(drafts, draft_id) == SelectSeq(drafts, LAMBDA d : d.id # draft_id)

\* the message resource users.drafts.send answers with
SentMessage == [id |-> "m1", labelIds |-> <<"SENT">>]

\* the body of send_draft: the service sends a draft it holds and drops it from the
\* drafts, and answers a request for a draft it does not have with an HttpError
SendDraft(draft_id) ==
    \E outcome \in RemoteOutcomes :
        /\ outcome = "ok" => \E i \in 1..Len(remote.drafts) : remote.drafts[i].id = draft_id
        /\ calls' = Append(calls, Request("users.drafts.send",
                               [userId |-> "me", body |-> [id |-> draft_id]], outcome))
        /\ CASE outcome = "ok" ->
                  /\ pc' = "returned"
                  /\ ret' = Return(PyDict(SentMessage))
                  /\ remote' = [remote EXCEPT
                                   !.drafts = WithoutDraft(@, draft_id),
                                   !.sent = @ \o SelectSeq(remote.drafts, LAMBDA d : d.id = draft_id)]
             [] outcome = "HttpError" -> pc' = "returned" /\ ret' = Return(None) /\ UNCHANGED remote
             [] OTHER -> pc' = "raised" /\ ret' = Raise(outcome) /\ UNCHANGED remote

send_draft ==
    /\ args.op = "send_draft"
    /\ pc = "execute"
    /\ SendDraft(args.draft_id)
    /\ UNCHANGED <<args, locals>>

delete_draft ==
    /\ args.op = "delete_draft"
    /\ pc = "execute"
    /\ \E outcome \in RemoteOutcomes :
        /\ outcome = "ok" => \E i \in 1..Len(remote.drafts) : remote.drafts[i].id = args.draft_id
        /\ calls' = Append(calls, Request("users.drafts.delete",
                               [userId |-> "me", id |-> args.draft_id], outcome))
        /\ CASE outcome = "ok" ->
                  /\ pc' = "returned"
                  /\ ret' = Return(PyBool(TRUE))
                  /\ remote' = [remote EXCEPT !.drafts = WithoutDraft(@, args.draft_id)]
             [] outcome = "HttpError" -> pc' = "returned" /\ ret' = Return(PyBool(FALSE)) /\ UNCHANGED remote
             [] OTHER -> pc' = "raised" /\ ret' = Raise(outcome) /\ UNCHANGED remote
    /\ UNCHANGED <<args, locals>>

\* create_and_send_draft calls create_draft with no thread_id and no attachment_urls
create_and_send_draft_message ==
    /\ args.op = "create_and_send_draft"
    /\ pc = "message"
    /\ BuildDraftRequest(None)

\* the call of create_draft ends: a draft goes on to send_draft, None (create_draft
\* caught an HttpError) is returned as None, any other exception propagates
create_and_send_draft_create ==
    /\ args.op = "create_and_send_draft"
    /\ pc = "execute"
    /\ \E outcome \in RemoteOutcomes :
        LET draft == [id |-> NewDraftId, message |-> locals.draft_request.message]
        IN /\ calls' = Append(calls, Request("users.drafts.create",
                                  [userId |-> "me", body |-> locals.draft_request], outcome))
           /\ CASE outcome = "ok" ->
                     /\ pc' = "send"
                     /\ locals' = [locals EXCEPT !.draft = PyDict(draft)]
                     /\ remote' = [remote EXCEPT !.drafts = Append(@, draft)]
                     /\ UNCHANGED ret
                [] outcome = "HttpError" ->
                     pc' = "returned" /\ ret' = Return(None) /\ UNCHANGED <<locals, remote>>
                [] OTHER -> pc' = "raised" /\ ret' = Raise(outcome) /\ UNCHANGED <<locals, remote>>
    /\ UNCHANGED args

\* return send_draft(service, draft['id'])
create_and_send_draft_send ==
    /\ args.op = "create_and_send_draft"
    /\ pc = "send"
    /\ SendDraft(locals.draft.v.id)
    /\ UNCHANGED <<args, locals>>

MaxAttachments == 2

\* local paths a caller passes: two files that exist and one that does not
Paths ==
    { [basename |-> <<"a", ".", "t", "x", "t">>, exists |-> TRUE, content |-> <<"A">>],
      [basename |-> <<"b", ".", "p", "d", "f">>, exists |-> TRUE, content |-> <<"B">>],
      [basename |-> <<"g", "o", "n", "e">>, exists |-> FALSE, content |-> <<>>] }

AttachmentsInputs == {None} \cup {PyList(ps) : ps \in SeqsUpTo(Paths, MaxAttachments)}

Address == PyStr(<<"x", "@", "y">>)

RecipientInputs == {None, Address, PyList(<<Address, Address>>)}

UrlItems ==
    { [url |-> PyStr(<<"h", "/", "i", ".", "p", "n", "g">>), filename |-> None],
      [url |-> PyStr(<<"h", "/">>), filename |-> None],
      [url |-> PyStr(<<"h", "/", "i">>), filename |-> PyStr(<<"n">>)] }

\* the draft the mailbox holds before the call
OldDraft == [id |-> "d1", message |-> DraftRequest([subtype |-> "mixed", headers |-> <<>>, parts |-> <<>>], None).message]

InitDraft ==
    /\ \/ args \in [op : {"create_draft"}, to : RecipientInputs, subject : {PyStr(<<"H", "i">>)},
                    body : {None, PyStr(<<"t">>)}, html_body : {None, PyStr(<<"<", "p", ">">>)},
                    cc : {None, Address}, bcc : {None},
                    attachments : AttachmentsInputs,
                    thread_id : {None, PyStr(<<"t", "1">>)},
                    attachment_urls : {None} \cup {PyList(<<u>>) : u \in UrlItems}]
       \/ args \in [op : {"update_draft"}, draft_id : {"d1", "d9"}, to : RecipientInputs,
                    subject : {None, PyStr(<<"H", "i">>)},
                    body : {None, PyStr(<<"t">>)}, html_body : {None},
                    cc : {None}, bcc : {None, Address},
                    attachments : AttachmentsInputs,
                    attachment_urls : {None}]
       \/ args \in [op : {"create_and_send_draft"}, to : RecipientInputs,
                    subject : {PyStr(<<"H", "i">>)},
                    body : {None, PyStr(<<"t">>)}, html_body : {None, PyStr(<<"<", "p", ">">>)},
                    cc : {None}, bcc : {None},
                    attachments : AttachmentsInputs,
                    attachment_urls : {None}]
       \/ args \in [op : {"send_draft", "delete_draft"}, draft_id : {"d1", "d9"}]
    /\ pc = IF args.op \in {"send_draft", "delete_draft"} THEN "execute" ELSE "message"
    /\ locals = [message |-> <<>>, draft_request |-> <<>>, draft |-> None]
    /\ ret = Pending
    /\ calls = <<>>
    /\ remote = [drafts |-> <<OldDraft>>, sent |-> <<>>]

NextDraft ==
    \/ create_draft_message
    \/ create_draft_create
    \/ update_draft_message
    \/ update_draft_update
    \/ send_draft
    \/ delete_draft
    \/ create_and_send_draft_message
    \/ create_and_send_draft_create
    \/ create_and_send_draft_send

SpecDraft == InitDraft /\ [][NextDraft]_vars

(***************************************************************************)
(* Claims about drafts                                                     *)
(***************************************************************************)
\* the calls that build a message: create_draft and update_draft, and
\* create_and_send_draft, which calls create_draft
DraftCall == args.op \in {"create_draft", "update_draft", "create_and_send_draft"}

\* an attachment path was given that does not exist
MissingAttachment ==
    /\ DraftCall
    /\ args.attachments.t = "list"
    /\ \E i \in 1..Len(args.attachments.v) : ~args.attachments.v[i].exists

\* C16: when create_draft or update_draft is given an attachment path that does not
\* exist, the operation fails before any remote call: no request is issued, so no
\* draft is created or updated without the attachment.
C16_MissingAttachmentFailsFast ==
    MissingAttachment =>
        /\ calls = <<>>
        /\ remote.drafts = <<OldDraft>>
        /\ pc # "returned"

ExistingAttachments(paths) == SelectSeq(paths, LAMBDA p : p.exists)

\* what the code does: after the text parts the message carries one attachment
\* part for every path that exists, in order, and none for a path that does not
MissingAttachmentPassedOver ==
    (DraftCall /\ pc = "execute" /\ args.attachments.t = "list") =>
        LET given == ExistingAttachments(args.attachments.v)
            text == Len(BodyParts(args))
        IN /\ Len(locals.message.parts) >= text + Len(given)
           /\ \A i \in 1..Len(given) :
                 locals.message.parts[text + i] = AttachmentPart(given[i].content, given[i].basename)
           /\ \A i \in (text + Len(given) + 1)..Len(locals.message.parts) :
                 locals.message.parts[i].payload = args.attachment_urls.v[1].url.v

(***************************************************************************)
(* Claim about column display names                                        *)
(***************************************************************************)
\* C17: in the addTable request the display name of each column is the name of
\* its schema property with the first character upper-cased and every other
\* character exactly as in the property name.
C17_FirstCharacterCapitalized ==
    TableRequested =>
        LET cols == calls[1].params.body.requests[1].addTable.table.columnProperties
            props == args.schema_path.properties
        IN \A i \in 1..Len(cols) :
              /\ Len(cols[i].columnName) = Len(props[i].name)
              /\ cols[i].columnName[1] = upper(props[i].name[1])
              /\ \A k \in 2..Len(props[i].name) : cols[i].columnName[k] = props[i].name[k]

\* what the code does: the first character upper-cased, every other character
\* lower-cased
DisplayNameLowersTheRest ==
    TableRequested =>
        LET cols == calls[1].params.body.requests[1].addTable.table.columnProperties
            props == args.schema_path.properties
        IN \A i \in 1..Len(cols) :
              /\ Len(cols[i].columnName) = Len(props[i].name)
              /\ cols[i].columnName[1] = upper(props[i].name[1])
              /\ \A k \in 2..Len(props[i].name) : cols[i].columnName[k] = lower(props[i].name[k])

(***************************************************************************)
(* Two threads calling gateway operations on shared service objects.       *)
(* Here pc, args, locals and ret hold one value per thread; a request is   *)
(* in flight from the moment execute() or next_chunk() sends it on a       *)
(* transport handle until its response or error comes back.                *)
(***************************************************************************)
Threads == {"t1", "t2"}

\* the transport build() gave the service object; a request executed without an
\* http argument is sent on the transport of the service it was made from
ServiceHttp(api) == [made_for |-> api, n |-> 0]

\* http = google_auth_httplib2.AuthorizedHttp(get_credentials(), http=httplib2.Http()):
\* a new transport object, made for the n-th request of the run
FreshHttp(n) == [made_for |-> "request", n |-> n]

InFlight(thread, method, http) == [thread |-> thread, method |-> method, http |-> http, outcome |-> "in_flight"]

\* .execute(http=http) or .execute() or .next_chunk(), up to the sending of the request
Send(t, method, http, wait_pc) ==
    /\ calls' = Append(calls, InFlight(t, method, http))
    /\ pc' = [pc EXCEPT ![t] = wait_pc]
    /\ locals' = [locals EXCEPT ![t].request = Len(calls) + 1]

\* the response or the error of the thread's request has come back
Received(t, outcome) == calls' = [calls EXCEPT ![locals[t].request].outcome = outcome]

Finish(t, result) ==
    /\ pc' = [pc EXCEPT ![t] = IF result.kind = "raise" THEN "raised" ELSE "returned"]
    /\ ret' = [ret EXCEPT ![t] = result]

thread_create_sheet_send(t) ==
    /\ args[t].op = "create_sheet"
    /\ pc[t] = "start"
    /\ Send(t, "spreadsheets.create", FreshHttp(Len(calls) + 1), "created")
    /\ UNCHANGED <<args, ret, remote>>

thread_create_sheet_receive(t) ==
    /\ args[t].op = "create_sheet"
    /\ pc[t] = "created"
    /\ \E outcome \in RemoteOutcomes :
        /\ Received(t, outcome)
        /\ Finish(t, CASE outcome = "ok" -> Return(NewSpreadsheetId)
                       [] outcome = "HttpError" -> Return(HttpErrorObject)
                       [] OTHER -> Raise(outcome))
    /\ UNCHANGED <<args, locals, remote>>

thread_get_all_rows_resolve_send(t) ==
    /\ args[t].op = "get_all_rows_from_sheet"
    /\ pc[t] = "start"
    /\ Send(t, "spreadsheets.get", FreshHttp(Len(calls) + 1), "resolved")
    /\ UNCHANGED <<args, ret, remote>>

thread_get_all_rows_resolve_receive(t) ==
    /\ args[t].op = "get_all_rows_from_sheet"
    /\ pc[t] = "resolved"
    /\ \E outcome \in RemoteOutcomes :
        LET r == _get_sheet_name_by_id(outcome, remote.sheets, args[t].sheet_id)
        IN IF r.kind = "raise" \/ ~Truthy(r.value)
           THEN /\ Received(t, outcome)
                /\ Finish(t, IF r.kind = "raise" THEN r ELSE Return(None))
                /\ UNCHANGED locals
           ELSE /\ Received(t, outcome)
                /\ pc' = [pc EXCEPT ![t] = "fetch"]
                /\ locals' = [locals EXCEPT ![t].sheet_name = r.value.v]
                /\ UNCHANGED ret
    /\ UNCHANGED <<args, remote>>

thread_get_all_rows_fetch_send(t) ==
    /\ args[t].op = "get_all_rows_from_sheet"
    /\ pc[t] = "fetch"
    /\ Send(t, "spreadsheets.values.get", FreshHttp(Len(calls) + 1), "fetched")
    /\ UNCHANGED <<args, ret, remote>>

thread_get_all_rows_fetch_receive(t) ==
    /\ args[t].op = "get_all_rows_from_sheet"
    /\ pc[t] = "fetched"
    /\ \E outcome \in RemoteOutcomes :
        /\ Received(t, outcome)
        /\ Finish(t, CASE outcome = "ok" -> Return(PyList(PaddedRows(remote.values)))
                       [] outcome = "HttpError" -> Return(None)
                       [] OTHER -> Raise(outcome))
    /\ UNCHANGED <<args, locals, remote>>

thread_create_draft_send(t) ==
    /\ args[t].op = "create_draft"
    /\ pc[t] = "start"
    /\ Send(t, "users.drafts.create", FreshHttp(Len(calls) + 1), "drafted")
    /\ UNCHANGED <<args, ret, remote>>

thread_create_draft_receive(t) ==
    /\ args[t].op = "create_draft"
    /\ pc[t] = "drafted"
    /\ \E outcome \in RemoteOutcomes :
        LET message == create_email_message(args[t], "ok")
            draft == [id |-> NewDraftId, message |-> DraftRequest(message, args[t].thread_id).message]
        IN /\ Received(t, outcome)
           /\ Finish(t, CASE outcome = "ok" -> Return(PyDict(draft))
                          [] outcome = "HttpError" -> Return(None)
                          [] OTHER -> Raise(outcome))
    /\ UNCHANGED <<args, locals, remote>>

\* service.files().create(...).execute(): no http argument is given
thread_create_folder_send(t) ==
    /\ args[t].op = "create_folder"
    /\ pc[t] = "start"
    /\ Send(t, "files.create", ServiceHttp("drive"), "folder_created")
    /\ UNCHANGED <<args, ret, remote>>

NewFolderId == PyStr(<<"f", "l", "d">>)

\* the callers here pass no completion callback; any exception is re-raised
thread_create_folder_receive(t) ==
    /\ args[t].op = "create_folder"
    /\ pc[t] = "folder_created"
    /\ \E outcome \in RemoteOutcomes :
        /\ Received(t, outcome)
        /\ Finish(t, IF outcome = "ok" THEN Return(NewFolderId) ELSE Raise(outcome))
    /\ UNCHANGED <<args, locals, remote>>

\* upload_file up to the loop; the callers here pass an existing path and no callbacks
thread_upload_file_begin(t) ==
    /\ args[t].op = "upload_file"
    /\ pc[t] = "start"
    /\ pc' = [pc EXCEPT ![t] = "next_chunk"]
    /\ locals' = [locals EXCEPT ![t].total_size = args[t].size, ![t].uploaded_bytes = 0]
    /\ UNCHANGED <<args, ret, calls, remote>>

\* request.next_chunk(): no http argument is given
thread_upload_file_next_chunk_send(t) ==
    /\ args[t].op = "upload_file"
    /\ pc[t] = "next_chunk"
    /\ Send(t, "files.create.next_chunk", ServiceHttp("drive"), "chunk_sent")
    /\ UNCHANGED <<args, ret, remote>>

thread_upload_file_next_chunk_receive(t) ==
    /\ args[t].op = "upload_file"
    /\ pc[t] = "chunk_sent"
    /\ \E outcome \in RemoteOutcomes :
        LET sent == Min(locals[t].uploaded_bytes + ChunkSize, locals[t].total_size)
        IN /\ Received(t, outcome)
           /\ IF outcome = "ok" /\ sent < locals[t].total_size
              THEN /\ pc' = [pc EXCEPT ![t] = "next_chunk"]
                   /\ locals' = [locals EXCEPT ![t].uploaded_bytes = sent]
                   /\ UNCHANGED ret
              ELSE /\ Finish(t, IF outcome = "ok" THEN Return(FileId) ELSE Raise(outcome))
                   /\ UNCHANGED locals
    /\ UNCHANGED <<args, remote>>

\* the calls a thread makes
ThreadCalls ==
    [op : {"create_sheet"}, title : {TitleA}]
    \cup [op : {"get_all_rows_from_sheet"}, spreadsheet_id : {"sid"}, sheet_id : {0, 3}]
    \cup [op : {"create_draft"}, to : {Address}, subject : {PyStr(<<"H", "i">>)}, body : {PyStr(<<"t">>)},
          html_body : {None}, cc : {None}, bcc : {None}, attachments : {None},
          thread_id : {None}, attachment_urls : {None}]
    \cup [op : {"create_folder"}, folder_name : {<<"d">>}, parent_id : {None}]
    \cup [op : {"upload_file"}, size : {1, ChunkSize + 1}]

ThreadLocals == [request |-> 0, sheet_name |-> <<>>, uploaded_bytes |-> 0, total_size |-> 0]

InitThreads ==
    /\ args \in [Threads -> ThreadCalls]
    /\ pc = [t \in Threads |-> "start"]
    /\ locals = [t \in Threads |-> ThreadLocals]
    /\ ret = [t \in Threads |-> Pending]
    /\ calls = <<>>
    /\ remote = [sheets |-> Sheets, values |-> FixedGrid, tables |-> <<>>, formats |-> <<>>]

NextThreads ==
    \E t \in Threads :
        \/ thread_create_sheet_send(t)
        \/ thread_create_sheet_receive(t)
        \/ thread_get_all_rows_resolve_send(t)
        \/ thread_get_all_rows_resolve_receive(t)
        \/ thread_get_all_rows_fetch_send(t)
        \/ thread_get_all_rows_fetch_receive(t)
        \/ thread_create_draft_send(t)
        \/ thread_create_draft_receive(t)
        \/ thread_create_folder_send(t)
        \/ thread_create_folder_receive(t)
        \/ thread_upload_file_begin(t)
        \/ thread_upload_file_next_chunk_send(t)
        \/ thread_upload_file_next_chunk_receive(t)

SpecThreads == InitThreads /\ [][NextThreads]_vars

(***************************************************************************)
(* Claim about transport handles                                           *)
(***************************************************************************)
RequestsInFlight == {i \in 1..Len(calls) : calls[i].outcome = "in_flight"}

\* C21: no two requests in flight at the same time use the same transport handle,
\* for the sheets and mailbox operations and for create_folder and upload_file.
C21_NoSharedTransport ==
    \A i, j \in RequestsInFlight : i # j => calls[i].http # calls[j].http

DriveMethods == {"files.create", "files.create.next_chunk"}

\* what holds of the sheets and mailbox operations: each of their requests is sent
\* on a transport made for that request alone, used by no other request ever
FreshTransportPerRequest ==
    \A i \in 1..Len(calls) :
        calls[i].method \notin DriveMethods =>
            /\ calls[i].http = FreshHttp(i)
            /\ \A j \in 1..Len(calls) : j # i => calls[j].http # calls[i].http

\* two requests of the sheets and mailbox operations are in flight together, each
\* on its own transport
TwoFreshInFlight ==
    \E i, j \in RequestsInFlight :
        /\ i # j
        /\ calls[i].method \notin DriveMethods
        /\ calls[j].method \notin DriveMethods
        /\ calls[i].thread # calls[j].thread

====
